---- MODULE Spec2Model ----
\* Verification model of the minecraft-dashboard backend:
\*   - the log tail tracker and parser      (src/log_service.py)
\*   - the session store and today's stats  (src/db_service.py)
\*   - the event store written by insert_events_sync, whose code is not part
\*     of the sources and is modelled from the specification (sections 4.3, 6)
\*   - the three background loops on the event loop  (src/app.py)
\*   - the query handlers                    (src/app.py, src/db_service.py)
\*   - the stats cache and the leaderboards  (src/stats_service.py)
\* Time is counted in seconds; the clock and all timestamps lie on a grid of
\* Step seconds.
EXTENDS Integers, Sequences, FiniteSets, TLC

VARIABLES
    now,              \* the wall clock (UTC seconds), datetime.now(timezone.utc)
    logFile,          \* content of logs/latest.log on the remote host
    last_size,        \* LogService._last_size
    pc,               \* position of the running poll: "idle" or "sized"
    current_size,     \* local current_size of the running poll
    player_events,    \* rows of the table player_events
    player_sessions,  \* rows of the table player_sessions
    response,         \* value returned by the last database operation
    history,          \* (history) operations applied to the session store
    delivered,        \* (history) byte offsets handed to the parser by this tracker
    redelivered,      \* (history) some byte was handed to the parser twice
    pendingRotation,  \* (history) the file was truncated below last_size, no poll saw it yet
    pollAfterRotation,\* (history) the running poll is the first after such a truncation
    pollResult,       \* (history) summary of the last completed poll
    lastInsert,       \* (history) summary of the last insert_events_sync call
    rotations,        \* (history) number of log rotations so far
    pollStart,        \* (history) last_size and stored rows when the running poll began
    pollFailure,      \* (history) the remote step at which the last poll failed
    loopPc,           \* position of each background loop of app.py
    running,          \* synchronous calls of each loop in progress in the executor
    outcome,          \* how the last awaited call of each loop ended
    time_str,         \* argument of _resolve_time (seconds of the day)
    resolved_time,    \* result of _resolve_time
    batch_lines,      \* argument of _parse_lines
    parsed,           \* result of _parse_lines, once it has returned
    stats_files,      \* usercache.json order and world/stats/<uuid>.json contents
    stats_cache,      \* StatsService._cache; player_stats in iteration order
    leaderboards,     \* result of get_leaderboards
    usercache_file,   \* what "cat usercache.json" yields on the host
    mc_server,        \* the Minecraft server as RCON sees it
    metricsPoll,      \* position and locals of one tick of poll_minecraft_server
    status_cache,     \* CacheService._cache
    cache_response,   \* result of the last read of the cache
    cacheHist,        \* (history) what the last successful poll wrote
    ssh_host,         \* how the remote host answers SSH traffic
    logWorker,        \* position of _poll_logs_sync in the executor
    startup           \* position of startup_event

logVars == <<logFile, last_size, pc, current_size, player_events, delivered,
             redelivered, pendingRotation, pollAfterRotation, pollResult,
             lastInsert, rotations, pollStart, pollFailure>>

dbVars == <<player_sessions, response, history>>

loopVars == <<loopPc, running, outcome>>

resolveVars == <<time_str, resolved_time>>

parseVars == <<batch_lines, parsed>>

boardVars == <<stats_files, stats_cache, leaderboards, usercache_file>>

cacheVars == <<mc_server, metricsPoll, status_cache, cache_response,
               cacheHist>>

remoteVars == <<ssh_host, logWorker, startup>>

sideVars == <<loopVars, resolveVars, parseVars, boardVars, cacheVars, remoteVars>>

vars == <<now, logVars, dbVars, sideVars>>

----------------------------------------------------------------------------
\* Bounds of the model

MaxTicks == 1        \* clock ticks in a behaviour
MaxTime == 3         \* grid points for the timestamps of recorded events
MaxRestarts == 1     \* process restarts in a behaviour
MaxFileLen == 2      \* bytes in the log file (a line is two bytes)
MaxRotations == 1    \* log rotations in a behaviour
MaxOps == 3          \* operations applied to the session store
MaxStored == 2       \* rows in the event store before a direct insert
MaxDays == 2         \* calendar days of the reference instants of _resolve_time
MaxLines == 3        \* lines in a batch handed to _parse_lines
MaxCachePlayers == 11    \* players listed in usercache.json
MaxElapsed == 32         \* seconds of the cache's clock in a behaviour

Players == {"Alex", "Steve"}

LogPlayers == {"Steve"}    \* the players named in the log file

EventTypes == {"join", "leave"}

\* the background loops: poll_minecraft_server, poll_logs, poll_stats
Loops == {"metrics", "logs", "stats"}

----------------------------------------------------------------------------
\* Time

DaySeconds == 86400

HourSeconds == 3600

PacificOffset == 28800

Step == HourSeconds \div 2    \* grid of the clock: half an hour

\* Timestamps start at 07:30:00 UTC of day 1, which is 23:30 of day 0 in the
\* Pacific zone: the grid has instants on both sides of the Pacific midnight.
GridStart == DaySeconds + 7 * HourSeconds + Step

TimeGrid == {GridStart + k * Step : k \in 0..MaxTime}

\* The clock starts at 09:00:00 UTC of day 1.
StartNow == GridStart + 3 * Step

\* (mutant) the time is always put on the date of the reference
ResolveTimeSameDay(tod, reference) ==
    LET today == reference - (reference % DaySeconds)
    IN  today + tod

\* LogService._resolve_time: HH:MM:SS (seconds of the day) on the date of the
\* reference; one day earlier when that is more than one hour after it.
ResolveTime(tod, reference) ==
    LET today == reference - (reference % DaySeconds)
        event_time == today + tod
    IN  IF event_time > reference + HourSeconds
        THEN event_time - DaySeconds
        ELSE event_time

----------------------------------------------------------------------------
\* The log file. A line "[HH:MM:SS] [thread/INFO]: Name joined the game\n" is
\* two bytes: its header up to ": " (carrying the time of day) and its message
\* with the newline (carrying the player and the kind).

HeaderByte(tod) == [k |-> "H", tod |-> tod, player |-> "", etype |-> ""]

MessageByte(p, e) == [k |-> "T", tod |-> 0, player |-> p, etype |-> e]

\* a message that is neither "joined the game" nor "left the game"
OtherByte == [k |-> "O", tod |-> 0, player |-> "", etype |-> ""]

\* white space at the start or the end of a line
SpaceByte == [k |-> "S", tod |-> 0, player |-> "", etype |-> ""]

\* names that [A-Za-z0-9_]{3,16} does not match: too short, with a space
InvalidNames == {"ab", "bad name"}

\* str.splitlines: the pieces of the content, each ending at a newline or at
\* the end of the content.
RECURSIVE SplitLines(_, _)
SplitLines(content, line) ==
    IF content = <<>>
    THEN IF line = <<>> THEN <<>> ELSE <<line>>
    ELSE IF Head(content).k = "T"
         THEN <<Append(line, Head(content))>> \o SplitLines(Tail(content), <<>>)
         ELSE SplitLines(Tail(content), Append(line, Head(content)))

\* JOIN_RE / LEAVE_RE: anchored at the start of the line, a header with a
\* time, then the player name and "joined the game" or "left the game".
LineMatches(line) ==
    /\ Len(line) >= 2
    /\ line[1].k = "H"
    /\ line[Len(line)].k = "T"
    /\ line[Len(line)].player \notin InvalidNames

\* str.strip
RECURSIVE StripLeft(_)
StripLeft(line) ==
    IF line # <<>> /\ Head(line).k = "S" THEN StripLeft(Tail(line)) ELSE line

RECURSIVE StripRight(_)
StripRight(line) ==
    IF line # <<>> /\ line[Len(line)].k = "S"
    THEN StripRight(SubSeq(line, 1, Len(line) - 1))
    ELSE line

StripLine(line) == StripRight(StripLeft(line))

\* the times of day datetime(year, month, day, h, m, s) accepts; \d{2} of the
\* patterns also matches hours above 23 and minutes or seconds above 59,
\* which stand here as times of DaySeconds and more
ValidTime(tod) == tod \in 0..(DaySeconds - 1)

\* _parse_lines raises ValueError: a line matches a pattern with a time that
\* datetime rejects (_resolve_time, line 120); no event list is returned
ParseRaises(lines) ==
    \E i \in 1..Len(lines) :
        /\ LineMatches(StripLine(lines[i]))
        /\ ~ValidTime(StripLine(lines[i])[1].tod)

\* LogService._parse_lines
RECURSIVE ParseLinesAt(_, _)
ParseLinesAt(lines, ref) ==
    IF lines = <<>> THEN <<>>
    ELSE LET line == StripLine(Head(lines))
             rest == ParseLinesAt(Tail(lines), ref)
         IN  IF LineMatches(line)
             THEN <<[player_name |-> line[Len(line)].player,
                     event_type |-> line[Len(line)].etype,
                     event_time |-> ResolveTime(line[1].tod, ref)]>> \o rest
             ELSE rest

ParseLines(content, ref) == ParseLinesAt(SplitLines(content, <<>>), ref)

\* tail -c +start_byte: the bytes from start_byte (counted from 1) to the end
\* of the file as it is when the command runs.
TailFrom(file, start_byte) == SubSeq(file, start_byte, Len(file))

----------------------------------------------------------------------------
\* The event store (table player_events, unique on player, type and time)

EventKey(r) == <<r.player_name, r.event_type, r.event_time>>

StoredKeys(rows) == {EventKey(rows[i]) : i \in 1..Len(rows)}

EventKeys(events) == {EventKey(events[i]) : i \in 1..Len(events)}

\* (mutant) an insert without the unique index: every event becomes a row
RECURSIVE InsertAll(_, _, _)
InsertAll(rows, events, count) ==
    IF events = <<>> THEN [rows |-> rows, count |-> count]
    ELSE LET e == Head(events)
         IN  InsertAll(Append(rows, [id |-> Len(rows) + 1,
                                     player_name |-> e.player_name,
                                     event_type |-> e.event_type,
                                     event_time |-> e.event_time]),
                       Tail(events), count + 1)

\* (mutant) duplicates are dropped but counted as inserted
RECURSIVE InsertCountingAll(_, _, _)
InsertCountingAll(rows, events, count) ==
    IF events = <<>> THEN [rows |-> rows, count |-> count]
    ELSE LET e == Head(events)
         IN  IF EventKey(e) \in StoredKeys(rows)
             THEN InsertCountingAll(rows, Tail(events), count + 1)
             ELSE InsertCountingAll(Append(rows, [id |-> Len(rows) + 1,
                                                  player_name |-> e.player_name,
                                                  event_type |-> e.event_type,
                                                  event_time |-> e.event_time]),
                                    Tail(events), count + 1)

\* insert_events_sync: each event is inserted unless the unique index already
\* holds its key; returns the rows and the number of rows inserted.
RECURSIVE InsertEventsSync(_, _, _)
InsertEventsSync(rows, events, count) ==
    IF events = <<>> THEN [rows |-> rows, count |-> count]
    ELSE LET e == Head(events)
         IN  IF EventKey(e) \in StoredKeys(rows)
             THEN InsertEventsSync(rows, Tail(events), count)
             ELSE InsertEventsSync(Append(rows, [id |-> Len(rows) + 1,
                                                 player_name |-> e.player_name,
                                                 event_type |-> e.event_type,
                                                 event_time |-> e.event_time]),
                                   Tail(events), count + 1)

----------------------------------------------------------------------------
\* Initial state: a fresh process (LogService.__init__), empty tables, an
\* empty log file.

NoPoll == [readFrom |-> 0 - 1, afterRotation |-> FALSE, allStored |-> TRUE]

NoInsert == [batchLen |-> 0, count |-> 0, added |-> 0]

NoPollStart == [last_size |-> 0, stored |-> 0]

\* the tailer, the stores and their history variables
InitStore ==
    /\ logFile = <<>>
    /\ last_size = 0
    /\ pc = "idle"
    /\ current_size = 0
    /\ player_events = <<>>
    /\ player_sessions = <<>>
    /\ response = [kind |-> "none"]
    /\ history = <<>>
    /\ delivered = {}
    /\ redelivered = FALSE
    /\ pendingRotation = FALSE
    /\ pollAfterRotation = FALSE
    /\ pollResult = NoPoll
    /\ lastInsert = NoInsert
    /\ rotations = 0
    /\ pollStart = NoPollStart
    /\ pollFailure = "none"

\* startup_event has created the three tasks: poll_minecraft_server and
\* poll_logs are ready to run, poll_stats is in its initial sleep.
InitLoops ==
    /\ loopPc = [l \in Loops |-> IF l = "stats" THEN "sleeping" ELSE "due"]
    /\ running = [l \in Loops |-> 0]
    /\ outcome = [l \in Loops |-> "none"]

Unresolved == 0 - 1    \* no call of _resolve_time yet

NoResolveCall ==
    /\ time_str = 0
    /\ resolved_time = Unresolved

NotParsed == [returned |-> FALSE, raised |-> FALSE, events |-> <<>>]

NoParseCall ==
    /\ batch_lines = <<>>
    /\ parsed = NotParsed

Never == 0 - 1    \* last_updated = None

NoBoards == [served |-> FALSE, playtime |-> <<>>, blocks |-> <<>>,
             distance |-> <<>>, last_updated |-> Never, stale |-> TRUE]

\* StatsService.__init__: an empty cache
EmptyCache ==
    [uuid_mapping |-> <<>>, player_stats |-> <<>>, last_updated |-> Never,
     stale |-> TRUE]

NoStats ==
    /\ stats_files = <<>>
    /\ stats_cache = EmptyCache
    /\ leaderboards = NoBoards
    /\ usercache_file = "json"

\* the metrics as _get_server_metrics_sync returns them; tps in hundredths,
\* cpu_percent and the disk sizes in tenths
FallbackMetrics ==
    [tps |-> 2000, memory_used_mb |-> 0, memory_total_mb |-> 0,
     cpu_percent |-> 0, disk_used_gb |-> 0, disk_total_gb |-> 0,
     uptime_seconds |-> 0]

\* CacheService.__init__
InitialCache ==
    [online |-> FALSE,
     players |-> [current |-> <<>>, count |-> 0, max |-> 0],
     performance |-> [tps |-> 0, memory_used_mb |-> 0, memory_total_mb |-> 0,
                      cpu_percent |-> 0, disk_used_gb |-> 0,
                      disk_total_gb |-> 0],
     uptime_seconds |-> 0, last_updated |-> Never, last_error |-> "None"]

\* no tick of poll_minecraft_server in progress
IdlePoll ==
    [pc |-> "idle", is_online |-> FALSE, current_players |-> <<>>,
     max_players |-> 0, rcon_failed |-> FALSE]

NoGoodPoll ==
    [lastTick |-> "none", written |-> FALSE, players |-> InitialCache.players,
     performance |-> InitialCache.performance]

\* startup_event has returned, the host answers, and no poll of the log file
\* is in the executor
NoRemoteCall ==
    /\ ssh_host = "up"
    /\ logWorker = "none"
    /\ startup = "initialised"

NoMetricsPoll ==
    /\ mc_server = [up |-> TRUE, players |-> <<>>]
    /\ metricsPoll = IdlePoll
    /\ status_cache = InitialCache
    /\ cache_response = [kind |-> "none"]
    /\ cacheHist = NoGoodPoll

Init ==
    /\ now = StartNow
    /\ InitStore
    /\ InitLoops
    /\ NoMetricsPoll
    /\ NoRemoteCall
    /\ NoResolveCall
    /\ NoParseCall
    /\ NoStats

----------------------------------------------------------------------------
\* Environment of the log tailer

\* The clock advances.
Tick ==
    /\ now < StartNow + MaxTicks * Step
    /\ now' = now + Step
    /\ UNCHANGED <<logVars, dbVars, sideVars>>

\* The game server writes the next piece of a log line: a header stamped with
\* the time of day, or the message that completes the line.
AppendLog ==
    /\ Len(logFile) < MaxFileLen
    /\ IF logFile # <<>> /\ logFile[Len(logFile)].k = "H"
       THEN \E p \in LogPlayers, e \in EventTypes :
                logFile' = Append(logFile, MessageByte(p, e))
       ELSE logFile' = Append(logFile, HeaderByte(now % DaySeconds))
    /\ UNCHANGED <<now, last_size, pc, current_size, player_events, delivered,
                   redelivered, pendingRotation, pollAfterRotation, pollResult,
                   lastInsert, rotations, pollStart, pollFailure, dbVars,
                   sideVars>>

\* The game server restarts: latest.log is archived and starts again empty.
RotateLog ==
    /\ rotations < MaxRotations
    /\ logFile # <<>>
    /\ logFile' = <<>>
    /\ rotations' = rotations + 1
    /\ delivered' = {}
    /\ pendingRotation' = (pendingRotation \/ last_size > 0 \/ pc = "sized")
    /\ UNCHANGED <<now, last_size, pc, current_size, player_events,
                   redelivered, pollAfterRotation, pollResult, lastInsert,
                   pollStart, pollFailure, dbVars, sideVars>>

----------------------------------------------------------------------------
\* LogService._poll_logs_sync, in its two remote commands

RotationDetectedAtZero(size, last) == size < last

RotationIgnored(size, last) == FALSE

\* the size tests of lines 54-61: an empty file returns before the rotation
\* test is reached
RotationDetected(size, last) == size > 0 /\ size < last

\* wc -c, and the decisions taken on the size (lines 49-65)
PollSize ==
    /\ pc = "idle"
    /\ LET size == Len(logFile)
           rotated == RotationDetected(size, last_size)
           base == IF rotated THEN 0 ELSE last_size
           first == pendingRotation /\ size > 0
       IN  /\ last_size' = base
           /\ delivered' = IF rotated THEN {} ELSE delivered
           /\ pendingRotation' = (pendingRotation /\ size = 0)
           /\ pollFailure' = "none"
           /\ pollStart' = IF size = 0 \/ size = base
                           THEN NoPollStart
                           ELSE [last_size |-> last_size,
                                 stored |-> Len(player_events)]
           /\ IF size = 0 \/ size = base
              THEN /\ pc' = "idle"
                   /\ pollAfterRotation' = FALSE
                   /\ pollResult' = [readFrom |-> 0 - 1,
                                     afterRotation |-> first,
                                     allStored |-> FALSE]
                   /\ UNCHANGED current_size
              ELSE /\ pc' = "sized"
                   /\ current_size' = size
                   /\ pollAfterRotation' = first
                   /\ UNCHANGED pollResult
    /\ UNCHANGED <<now, logFile, player_events, redelivered, lastInsert,
                   rotations, dbVars, sideVars>>

\* tail -c +N, the update of _last_size, parsing and insertion (lines 67-81)
PollRead ==
    /\ pc = "sized"
    /\ LET start_byte == last_size + 1
           new_content == TailFrom(logFile, start_byte)
           events == ParseLines(new_content, now)
           ins == IF events # <<>>
                  THEN InsertEventsSync(player_events, events, 0)
                  ELSE [rows |-> player_events, count |-> 0]
           offsets == {i - 1 : i \in start_byte..Len(logFile)}
       IN  /\ last_size' = current_size
           /\ player_events' = ins.rows
           /\ delivered' = delivered \cup offsets
           /\ redelivered' = (redelivered \/ (offsets \cap delivered) # {})
           /\ lastInsert' = IF events # <<>>
                            THEN [batchLen |-> Len(events),
                                  count |-> ins.count,
                                  added |-> Len(ins.rows) - Len(player_events)]
                            ELSE lastInsert
           /\ pollResult' =
                 [readFrom |-> last_size,
                  afterRotation |-> pollAfterRotation,
                  allStored |-> EventKeys(ParseLines(logFile, now))
                                    \subseteq StoredKeys(ins.rows)]
    /\ pc' = "idle"
    /\ current_size' = 0
    /\ pollAfterRotation' = FALSE
    /\ pollStart' = NoPollStart
    /\ pollFailure' = "none"
    /\ UNCHANGED <<now, logFile, pendingRotation, rotations, dbVars, sideVars>>

\* tail -c +N fails (connection lost): the exception handler of line 83
PollReadFail ==
    /\ pc = "sized"
    /\ pc' = "idle"
    /\ current_size' = 0
    /\ pollAfterRotation' = FALSE
    /\ pendingRotation' = (pendingRotation \/ pollAfterRotation)
    /\ pollFailure' = "read"
    /\ UNCHANGED <<now, logFile, last_size, player_events,
                   delivered, redelivered, pollResult, lastInsert, rotations,
                   pollStart, dbVars, sideVars>>

----------------------------------------------------------------------------
\* The session store (table player_sessions) of src/db_service.py

NULL == 0 - 1    \* left_at / duration_seconds of an open session

SessionRow(id, p, t) ==
    [id |-> id, player_name |-> p, joined_at |-> t, left_at |-> NULL,
     duration_seconds |-> NULL]

RowIds(rows) == 1..Len(rows)

OpenIds(rows, p) ==
    {i \in RowIds(rows) : rows[i].player_name = p /\ rows[i].left_at = NULL}

\* DatabaseService._record_join_sync: INSERT of an open session
RecordJoinRows(rows, p, t) == Append(rows, SessionRow(Len(rows) + 1, p, t))

\* SELECT ... WHERE player_name = ? AND left_at IS NULL
\* ORDER BY joined_at DESC LIMIT 1: the candidates for the row returned
MostRecentOpen(rows, p) ==
    {i \in OpenIds(rows, p) :
        \A j \in OpenIds(rows, p) : rows[j].joined_at <= rows[i].joined_at}

\* (mutant) the session is closed without computing its duration
CloseRowZero(rows, i, t) ==
    [rows EXCEPT ![i] = [@ EXCEPT !.left_at = t, !.duration_seconds = 0]]

\* UPDATE player_sessions SET left_at = ?, duration_seconds = ? WHERE id = ?
CloseRow(rows, i, t) ==
    [rows EXCEPT ![i] = [@ EXCEPT !.left_at = t,
                                  !.duration_seconds = t - rows[i].joined_at]]

\* DatabaseService._close_orphaned_sessions_sync
CloseOrphanedSessions(rows) ==
    [i \in RowIds(rows) |->
        IF rows[i].left_at = NULL
        THEN [rows[i] EXCEPT !.left_at = rows[i].joined_at,
                             !.duration_seconds = 0]
        ELSE rows[i]]

\* midnight of the Pacific day that contains the instant, in UTC
MidnightUtc(at) ==
    LET local == at - PacificOffset
    IN  (local - (local % DaySeconds)) + PacificOffset

\* (mutant) an active session contributes nothing to the sum
RECURSIVE SumPlaytimeClosedOnly(_, _, _, _)
SumPlaytimeClosedOnly(rows, p, from, at) ==
    IF rows = <<>> THEN 0
    ELSE LET r == Head(rows)
             v == IF r.player_name = p /\ r.joined_at >= from /\ r.left_at # NULL
                  THEN r.duration_seconds
                  ELSE 0
         IN  v + SumPlaytimeClosedOnly(Tail(rows), p, from, at)

\* (mutant) sessions that overlap the window are counted, clipped to it
RECURSIVE SumPlaytimeOverlapping(_, _, _, _)
SumPlaytimeOverlapping(rows, p, from, at) ==
    IF rows = <<>> THEN 0
    ELSE LET r == Head(rows)
             end == IF r.left_at = NULL THEN at ELSE r.left_at
             start == IF r.joined_at >= from THEN r.joined_at ELSE from
             v == IF r.player_name = p /\ end >= from THEN end - start ELSE 0
         IN  v + SumPlaytimeOverlapping(Tail(rows), p, from, at)

\* SUM(CASE WHEN left_at IS NULL THEN now - joined_at ELSE duration_seconds END)
\* over the rows of a player with joined_at >= from
RECURSIVE SumPlaytime(_, _, _, _)
SumPlaytime(rows, p, from, at) ==
    IF rows = <<>> THEN 0
    ELSE LET r == Head(rows)
             v == IF r.player_name = p /\ r.joined_at >= from
                  THEN IF r.left_at = NULL THEN at - r.joined_at
                                           ELSE r.duration_seconds
                  ELSE 0
         IN  v + SumPlaytime(Tail(rows), p, from, at)

\* COUNT(*) of the same rows
SessionCount(rows, p, from) ==
    Cardinality({i \in RowIds(rows) :
                    rows[i].player_name = p /\ rows[i].joined_at >= from})

\* SELECT DISTINCT player_name FROM player_sessions WHERE left_at IS NULL
CurrentlyOnlineNames(rows) ==
    {rows[i].player_name : i \in {j \in RowIds(rows) : rows[j].left_at = NULL}}

\* the groups of GROUP BY player_name under WHERE joined_at >= from
WindowPlayers(rows, from) ==
    {rows[i].player_name : i \in {j \in RowIds(rows) : rows[j].joined_at >= from}}

PlayerEntry(rows, p, from, at) ==
    [name |-> p,
     total_playtime_seconds |-> SumPlaytime(rows, p, from, at),
     session_count |-> SessionCount(rows, p, from),
     currently_online |-> p \in CurrentlyOnlineNames(rows)]

RECURSIVE SumField(_, _)
SumField(entries, f) ==
    IF entries = <<>> THEN 0
    ELSE f[Head(entries).name] + SumField(Tail(entries), f)

\* (mutant) the groups in any order
AnyOrder(rows, from, at) ==
    LET ps == WindowPlayers(rows, from)
        n == Cardinality(ps)
    IN  {s \in [1..n -> ps] : \A i, j \in 1..n : i # j => s[i] # s[j]}

\* the orders ORDER BY total_playtime_seconds DESC allows for the groups
OrderedByPlaytime(rows, from, at) ==
    LET ps == WindowPlayers(rows, from)
        n == Cardinality(ps)
    IN  {s \in [1..n -> ps] :
            /\ \A i, j \in 1..n : i # j => s[i] # s[j]
            /\ \A i, j \in 1..n :
                  i < j => SumPlaytime(rows, s[i], from, at)
                             >= SumPlaytime(rows, s[j], from, at)}

\* DatabaseService._get_today_stats_sync, for one order of the groups
TodayStats(rows, order, at) ==
    LET from == MidnightUtc(at)
        players == [i \in 1..Len(order) |-> PlayerEntry(rows, order[i], from, at)]
    IN  [kind |-> "stats",
         at |-> at,
         players |-> players,
         summary |->
            [unique_players |-> Len(players),
             total_playtime_seconds |->
                SumField(players, [p \in Players |->
                                      SumPlaytime(rows, p, from, at)]),
             total_sessions |->
                SumField(players, [p \in Players |->
                                      SessionCount(rows, p, from)])]]

----------------------------------------------------------------------------
\* Operations on the session store

HistoryEntry(op, p, t) == [op |-> op, player |-> p, time |-> t]

\* DatabaseService.record_join
RecordJoin(p, t) ==
    /\ Len(history) < MaxOps
    /\ player_sessions' = RecordJoinRows(player_sessions, p, t)
    /\ history' = Append(history, HistoryEntry("join", p, t))
    /\ response' = [kind |-> "none"]
    /\ UNCHANGED <<now, logVars, sideVars>>

\* (mutant) the SELECT without its player_name condition
LeaveTargetsAnyPlayer(rows, p) ==
    {i \in RowIds(rows) : rows[i].left_at = NULL}

\* (mutant) ORDER BY joined_at ASC: the oldest open session
LeaveTargetsOldestOpen(rows, p) ==
    {i \in OpenIds(rows, p) :
        \A j \in OpenIds(rows, p) : rows[i].joined_at <= rows[j].joined_at}

\* the row DatabaseService._record_leave_sync updates, if any
LeaveTargets(rows, p) == MostRecentOpen(rows, p)

\* DatabaseService.record_leave
RecordLeave(p, t) ==
    /\ Len(history) < MaxOps
    /\ IF LeaveTargets(player_sessions, p) = {}
       THEN UNCHANGED player_sessions
       ELSE \E i \in LeaveTargets(player_sessions, p) :
               player_sessions' = CloseRow(player_sessions, i, t)
    /\ history' = Append(history, HistoryEntry("leave", p, t))
    /\ response' = [kind |-> "none"]
    /\ UNCHANGED <<now, logVars, sideVars>>

\* Process restart: startup_event runs init_db (tables are kept, orphaned
\* sessions are closed) and a new LogService starts at offset 0.
Restart ==
    /\ Len(history) < MaxOps
    /\ Cardinality({i \in 1..Len(history) : history[i].op = "init"}) < MaxRestarts
    /\ player_sessions' = CloseOrphanedSessions(player_sessions)
    /\ history' = Append(history, HistoryEntry("init", "", 0))
    /\ response' = [kind |-> "none"]
    /\ last_size' = 0
    /\ pc' = "idle"
    /\ current_size' = 0
    /\ delivered' = {}
    /\ pendingRotation' = FALSE
    /\ pollAfterRotation' = FALSE
    /\ pollStart' = NoPollStart
    /\ pollFailure' = "none"
    /\ UNCHANGED <<now, logFile, player_events, redelivered,
                   pollResult, lastInsert, rotations, sideVars>>

\* DatabaseService.get_today_stats (GET /api/today)
GetTodayStats ==
    /\ \E order \in OrderedByPlaytime(player_sessions, MidnightUtc(now), now) :
          response' = TodayStats(player_sessions, order, now)
    /\ UNCHANGED <<now, logVars, player_sessions, history, sideVars>>

----------------------------------------------------------------------------
\* insert_events_sync called on its own, with a batch of one or two events

BatchEvent(p, e, t) == [player_name |-> p, event_type |-> e, event_time |-> t]

CandidateEvents ==
    {BatchEvent(p, e, t) : p \in LogPlayers, e \in EventTypes, t \in TimeGrid}

Batches ==
    {<<a>> : a \in CandidateEvents}
        \cup {<<a, b>> : a \in CandidateEvents, b \in CandidateEvents}

InsertEvents(batch) ==
    /\ Len(player_events) < MaxStored
    /\ LET ins == InsertEventsSync(player_events, batch, 0)
       IN  /\ player_events' = ins.rows
           /\ lastInsert' = [batchLen |-> Len(batch),
                             count |-> ins.count,
                             added |-> Len(ins.rows) - Len(player_events)]
    /\ UNCHANGED <<now, logFile, last_size, pc, current_size, delivered,
                   redelivered, pendingRotation, pollAfterRotation, pollResult,
                   rotations, pollStart, pollFailure, dbVars, sideVars>>

----------------------------------------------------------------------------
\* Specifications

\* the ingestion path: the log file, the tail tracker and the event store
NextLog ==
    \/ Tick
    \/ AppendLog
    \/ RotateLog
    \/ PollSize
    \/ PollRead
    \/ PollReadFail
    \/ Restart

SpecLog == Init /\ [][NextLog]_vars

\* the session store and its query
NextDb ==
    \/ Tick
    \/ \E p \in Players, t \in TimeGrid : RecordJoin(p, t)
    \/ \E p \in Players, t \in TimeGrid : RecordLeave(p, t)
    \/ Restart
    \/ GetTodayStats

SpecDb == Init /\ [][NextDb]_vars

\* the event store under direct batch inserts
NextInsert == \E batch \in Batches : InsertEvents(batch)

SpecInsert == Init /\ [][NextInsert]_vars

----------------------------------------------------------------------------
\* Properties of the ingestion path

\* C1: in every reachable state of the ingestion path (incremental reads, full
\* re-reads after a detected rotation, full re-reads after a restart) no two
\* rows of the event store have the same (player_name, event_type, event_time).
C1_UniqueEvents ==
    \A i, j \in 1..Len(player_events) :
        i # j => EventKey(player_events[i]) # EventKey(player_events[j])

\* a full re-read (from byte 0, after a restart or a rotation) delivered an
\* event that was already stored, and the store dropped it
C1_ReplayAbsorbed ==
    /\ pollResult.readFrom = 0
    /\ history # <<>> \/ rotations > 0
    /\ lastInsert.batchLen > 0
    /\ lastInsert.count < lastInsert.batchLen
    /\ player_events # <<>>

\* C2: inserting a batch a second time leaves the rows as they are after the
\* first insert and returns 0, and the count an insert returns is the number
\* of rows it added.
C2_IdempotentInsert ==
    /\ lastInsert.count = lastInsert.added
    /\ \A batch \in Batches :
          LET once == InsertEventsSync(player_events, batch, 0)
              twice == InsertEventsSync(once.rows, batch, 0)
          IN  /\ once.count = Len(once.rows) - Len(player_events)
              /\ twice.rows = once.rows
              /\ twice.count = 0

\* an insert of a batch whose events were all stored already has happened
C2_SecondInsertDropped ==
    /\ lastInsert.batchLen > 0
    /\ lastInsert.count = 0
    /\ lastInsert.added = 0
    /\ player_events # <<>>

\* C3: the first poll that observes the (non-empty) file after a truncation
\* below the tracker's offset reads the file from byte 0, and afterwards every
\* event of the whole file content is in the event store.
C3_RotationReplaySafe ==
    pollResult.afterRotation =>
        /\ pollResult.readFrom = 0
        /\ pollResult.allStored

\* C4: while no truncation is detected, no byte of the log file is handed to
\* the parser by more than one poll.
C4_NoRedelivery == ~redelivered

----------------------------------------------------------------------------
\* Properties of the session store and of today's stats

\* the join and leave events recorded so far, as the history has them
IsEvent(h) == h.op \in EventTypes

EventIdx(p) == {i \in 1..Len(history) : IsEvent(history[i]) /\ history[i].player = p}

JoinTimes(p) ==
    {history[i].time : i \in {j \in EventIdx(p) : history[j].op = "join"}}

LeaveTimes(p) ==
    {history[i].time : i \in {j \in EventIdx(p) : history[j].op = "leave"}}

\* the operations that concern player p: its events and the restarts
RECURSIVE OpsOf(_, _)
OpsOf(h, p) ==
    IF h = <<>> THEN <<>>
    ELSE IF Head(h).op = "init" \/ Head(h).player = p
         THEN <<Head(h)>> \o OpsOf(Tail(h), p)
         ELSE OpsOf(Tail(h), p)

\* the entry of player p in the last stats result, if there is one
EntriesOf(p) ==
    {response.players[i] : i \in {j \in DOMAIN response.players :
                                     response.players[j].name = p}}

\* C5: after Join(A,t0), Leave(A,t1), Join(A,t2) were recorded in this order
\* (t0 < t1 < t2 <= now, nothing else for A, no restart) and with the window
\* starting at or before t0, the stats report for A two sessions, a playtime
\* of (t1 - t0) + (now - t2) and currently_online = true.
C5_Scenario(p) ==
    LET ops == OpsOf(history, p)
    IN  /\ response.kind = "stats"
        /\ Len(ops) = 3
        /\ \A i \in 1..3 : ops[i].player = p
        /\ <<ops[1].op, ops[2].op, ops[3].op>> = <<"join", "leave", "join">>
        /\ ops[1].time < ops[2].time
        /\ ops[2].time < ops[3].time
        /\ ops[3].time <= response.at
        /\ MidnightUtc(response.at) <= ops[1].time

C5_SessionReconstruction ==
    response.kind = "stats" =>
        \A p \in Players :
            C5_Scenario(p) =>
                LET ops == OpsOf(history, p)
                IN  EntriesOf(p) =
                        {[name |-> p,
                          total_playtime_seconds |->
                              (ops[2].time - ops[1].time)
                                  + (response.at - ops[3].time),
                          session_count |-> 2,
                          currently_online |-> TRUE]}

\* the scenario was recorded and queried while the second session had a
\* positive length
C5_ScenarioQueried ==
    \E p \in Players :
        C5_Scenario(p) /\ OpsOf(history, p)[3].time < response.at

\* the last event of a player: greatest event_time, ties by insertion order
LatestEventIdx(p) ==
    CHOOSE i \in EventIdx(p) :
        \A j \in EventIdx(p) :
            \/ history[j].time < history[i].time
            \/ history[j].time = history[i].time /\ j <= i

\* C6: the currently_online flag of a reported player is true exactly when
\* that player's event with the greatest event_time (ties by insertion order)
\* is a Join.
C6_OnlineIffLastEventIsJoin ==
    response.kind = "stats" =>
        \A i \in DOMAIN response.players :
            LET e == response.players[i]
            IN  e.currently_online
                    <=> (history[LatestEventIdx(e.name)].op = "join")

\* end - start summed over the sessions of p that are anchored in the window;
\* an open session ends at the instant of the query
RECURSIVE SumOfSessions(_, _, _, _)
SumOfSessions(rows, p, from, at) ==
    IF rows = <<>> THEN 0
    ELSE LET r == Head(rows)
             end == IF r.left_at = NULL THEN at ELSE r.left_at
             v == IF r.player_name = p /\ r.joined_at >= from
                  THEN end - r.joined_at ELSE 0
         IN  v + SumOfSessions(Tail(rows), p, from, at)

C8_LoneLeaveStep ==
    \A p \in Players :
        (/\ Len(history') = Len(history) + 1
         /\ history'[Len(history')].op = "leave"
         /\ history'[Len(history')].player = p
         /\ JoinTimes(p) = {})
            => player_sessions' = player_sessions

C8_LoneLeaveExcluded ==
    /\ [](response.kind = "stats" =>
             \A p \in Players : JoinTimes(p) = {} => EntriesOf(p) = {})
    /\ [][C8_LoneLeaveStep]_vars

\* a Leave of a player without a Join was recorded while another player had
\* an open session, and the stats were queried
C8_LoneLeaveRecorded ==
    \E p \in Players :
        /\ response.kind = "stats"
        /\ LeaveTimes(p) # {}
        /\ JoinTimes(p) = {}
        /\ \E i \in RowIds(player_sessions) : player_sessions[i].left_at = NULL

\* the sessions section 4.4 derives from the events: each Join at or after
\* the window start ends at the earliest Leave of the player strictly after
\* it, or at the instant of the query
DerivedEnd(p, t, at) ==
    LET later == {l \in LeaveTimes(p) : l > t}
    IN  IF later = {} THEN at
        ELSE CHOOSE l \in later : \A m \in later : l <= m

RECURSIVE DerivedTotal(_, _, _)
DerivedTotal(p, joins, at) ==
    IF joins = {} THEN 0
    ELSE LET t == CHOOSE x \in joins : TRUE
         IN  (DerivedEnd(p, t, at) - t) + DerivedTotal(p, joins \ {t}, at)

DerivedEntries(p, from, at) ==
    LET joins == {t \in JoinTimes(p) : t >= from}
    IN  IF joins = {} THEN {}
        ELSE {[name |-> p,
               total_playtime_seconds |-> DerivedTotal(p, joins, at),
               session_count |-> Cardinality(joins),
               currently_online |-> history[LatestEventIdx(p)].op = "join"]}

\* C9: the stats are a function of the set of recorded events, the window and
\* now: they agree with the sessions derived from the event history, whatever
\* the order of recording and whether or not the process restarted.
C9_StatsAgreeWithEvents ==
    response.kind = "stats" =>
        \A p \in Players :
            EntriesOf(p) = DerivedEntries(p, MidnightUtc(response.at), response.at)

\* C10: a row of the store, once written, is never changed or deleted.
C10_RowsKept ==
    \A i \in RowIds(player_sessions) :
        /\ i \in RowIds(player_sessions')
        /\ player_sessions'[i] = player_sessions[i]

C10_AppendOnly == [][C10_RowsKept]_vars

----------------------------------------------------------------------------
\* LogService._resolve_time on its own: a time of day and a reference instant

\* times of day around midnight, around the one-hour margin, and mid-day
TimesOfDay ==
    {0, 29, 30, 31, HourSeconds, HourSeconds + 30, HourSeconds + 31,
     12 * HourSeconds, 23 * HourSeconds, DaySeconds - 1}

ReferenceTimes ==
    {0, 30, HourSeconds, 12 * HourSeconds, 23 * HourSeconds - 1,
     23 * HourSeconds, 23 * HourSeconds + Step, DaySeconds - 1}

ReferenceInstants ==
    {d * DaySeconds + s : d \in 1..MaxDays, s \in ReferenceTimes}

InitResolve ==
    /\ now \in ReferenceInstants
    /\ time_str \in TimesOfDay
    /\ resolved_time = Unresolved
    /\ InitStore
    /\ InitLoops
    /\ NoMetricsPoll
    /\ NoRemoteCall
    /\ NoParseCall
    /\ NoStats

\* _resolve_time(time_str, reference) with the clock as the reference
ResolveCall ==
    /\ resolved_time = Unresolved
    /\ resolved_time' = ResolveTime(time_str, now)
    /\ UNCHANGED <<now, logVars, dbVars, loopVars, time_str, parseVars,
                   boardVars, cacheVars, remoteVars>>

NextResolve == ResolveCall

SpecResolve == InitResolve /\ [][NextResolve]_vars

\* C11: a time of day resolved against the reference instant now is the
\* instant on now's UTC date when that candidate is at most one hour after
\* now, and the same time on the previous date otherwise; 23:59:59 resolved at
\* 00:00:30 is 23:59:59 of the previous day; the result is at most now + 1 hour.
C11_DayBoundary ==
    resolved_time # Unresolved =>
        LET date == now - (now % DaySeconds)
            candidate == date + time_str
        IN  /\ candidate <= now + HourSeconds => resolved_time = candidate
            /\ candidate > now + HourSeconds
                  => resolved_time = candidate - DaySeconds
            /\ resolved_time <= now + HourSeconds
            /\ (time_str = DaySeconds - 1 /\ now % DaySeconds = 30)
                  => resolved_time = date - 1

\* 23:59:59 was resolved at 00:00:30 and fell on the previous day
C11_MidnightRollback ==
    /\ time_str = DaySeconds - 1
    /\ now % DaySeconds = 30
    /\ resolved_time = (now - 30) - 1

----------------------------------------------------------------------------
\* Failures of the remote steps of a poll

\* _create_ssh_client raises (connection refused, timeout, authentication):
\* the handler of line 83 runs before any state was read or written
PollConnectFail ==
    /\ pc = "idle"
    /\ pollStart' = [last_size |-> last_size, stored |-> Len(player_events)]
    /\ pollFailure' = "connect"
    /\ UNCHANGED <<now, logFile, last_size, pc, current_size, player_events,
                   delivered, redelivered, pendingRotation, pollAfterRotation,
                   pollResult, lastInsert, rotations, dbVars, sideVars>>

\* exec_command of wc -c raises (channel closed): the handler of line 83
PollSizeFail ==
    /\ pc = "idle"
    /\ pollStart' = [last_size |-> last_size, stored |-> Len(player_events)]
    /\ pollFailure' = "size"
    /\ UNCHANGED <<now, logFile, last_size, pc, current_size, player_events,
                   delivered, redelivered, pendingRotation, pollAfterRotation,
                   pollResult, lastInsert, rotations, dbVars, sideVars>>

\* the ingestion path with a remote host that can fail at every step
\* tail -c +N succeeds and _last_size is assigned (lines 67-71), then
\* insert_events_sync raises (line 78): the handler of line 83 prints
PollReadInsertFail ==
    /\ pc = "sized"
    /\ ParseLines(TailFrom(logFile, last_size + 1), now) # <<>>
    /\ last_size' = current_size
    /\ pc' = "idle"
    /\ current_size' = 0
    /\ pollAfterRotation' = FALSE
    /\ pollStart' = NoPollStart
    /\ pollFailure' = "none"
    /\ pollResult' = [readFrom |-> last_size,
                      afterRotation |-> pollAfterRotation,
                      allStored |-> EventKeys(ParseLines(logFile, now))
                                        \subseteq StoredKeys(player_events)]
    /\ UNCHANGED <<now, logFile, player_events, delivered, redelivered,
                   pendingRotation, lastInsert, rotations, dbVars, sideVars>>

NextPoll ==
    \/ AppendLog
    \/ RotateLog
    \/ PollConnectFail
    \/ PollSizeFail
    \/ PollSize
    \/ PollRead
    \/ PollReadFail
    \/ PollReadInsertFail

SpecPoll == Init /\ [][NextPoll]_vars

\* C12: after a poll that failed at a remote step (connect, size query, range
\* read) last_size is what it was when the poll began and no row was added to
\* the event store, also when the poll had detected a rotation.
C12_FailedPollKeepsState ==
    pollFailure # "none" =>
        /\ last_size = pollStart.last_size
        /\ Len(player_events) = pollStart.stored

----------------------------------------------------------------------------
\* The background loops of app.py on the asyncio event loop. A loop is
\* "sleeping" in asyncio.sleep, "due" when its sleep has expired, "rcon" while
\* it runs the RCON queries, "executor" while it awaits a call handed to
\* run_in_executor, and "done" when that call has ended and the loop has not
\* yet resumed.

\* RCONService.execute_command calls _execute_sync directly (line 56): while
\* the RCON queries run, the event loop thread runs nothing else.
LoopFree == loopPc["metrics"] # "rcon"

\* (mutant) the call is handed to the executor and not awaited
AfterSubmitDetached(l) == "sleeping"

\* await loop.run_in_executor(None, ...): the loop waits for the call
AfterSubmit(l) == "executor"

\* (mutant) an exception of the awaited call leaves the while loop
AfterTickUncaught(result) == IF result = "error" THEN "dead" ELSE "sleeping"

\* try / except Exception around the tick, then asyncio.sleep
AfterTick(result) == "sleeping"

CanStart(l) == loopPc[l] = "due" /\ LoopFree

CanResume(l) == loopPc[l] = "done" /\ LoopFree

\* the timer of asyncio.sleep fires
SleepExpires(l) ==
    /\ loopPc[l] = "sleeping"
    /\ loopPc' = [loopPc EXCEPT ![l] = "due"]
    /\ UNCHANGED <<now, logVars, dbVars, running, outcome, resolveVars,
                   parseVars, boardVars, cacheVars, remoteVars>>

\* the event loop runs the task: poll_minecraft_server enters its RCON
\* queries, poll_logs and poll_stats hand their call to the executor
StartTick(l) ==
    /\ CanStart(l)
    /\ IF l = "metrics"
       THEN /\ loopPc' = [loopPc EXCEPT ![l] = "rcon"]
            /\ UNCHANGED running
       ELSE /\ loopPc' = [loopPc EXCEPT ![l] = AfterSubmit(l)]
            /\ running' = [running EXCEPT ![l] = @ + 1]
    /\ UNCHANGED <<now, logVars, dbVars, outcome, resolveVars, parseVars,
                   boardVars, cacheVars, remoteVars>>

\* the three RCON queries have returned (a response or None); the tick goes
\* on to await ssh_service.get_server_metrics in the executor
RconReturns ==
    /\ loopPc["metrics"] = "rcon"
    /\ loopPc' = [loopPc EXCEPT !["metrics"] = AfterSubmit("metrics")]
    /\ running' = [running EXCEPT !["metrics"] = @ + 1]
    /\ UNCHANGED <<now, logVars, dbVars, outcome, resolveVars, parseVars,
                   boardVars, cacheVars, remoteVars>>

\* a call running in the executor ends, with a result or with an exception
WorkerReturns(l, result) ==
    /\ running[l] > 0
    /\ running' = [running EXCEPT ![l] = @ - 1]
    /\ IF loopPc[l] = "executor"
       THEN /\ loopPc' = [loopPc EXCEPT ![l] = "done"]
            /\ outcome' = [outcome EXCEPT ![l] = result]
       ELSE UNCHANGED <<loopPc, outcome>>
    /\ UNCHANGED <<now, logVars, dbVars, resolveVars, parseVars, boardVars, cacheVars, remoteVars>>

\* the event loop resumes the task: the result or the exception is handled
\* and the task goes to sleep
Resume(l) ==
    /\ CanResume(l)
    /\ loopPc' = [loopPc EXCEPT ![l] = AfterTick(outcome[l])]
    /\ UNCHANGED <<now, logVars, dbVars, running, outcome, resolveVars,
                   parseVars, boardVars, cacheVars, remoteVars>>

NextLoops ==
    \/ \E l \in Loops : SleepExpires(l)
    \/ \E l \in Loops : StartTick(l)
    \/ RconReturns
    \/ \E l \in Loops, result \in {"ok", "error"} : WorkerReturns(l, result)
    \/ \E l \in Loops : Resume(l)

SpecLoops == Init /\ [][NextLoops]_vars

\* Timers fire, calls in progress end (with a result or an exception), and
\* the event loop runs every task that is ready again and again (its ready
\* queue is first-in first-out).
FairLoops ==
    /\ \A l \in Loops : WF_vars(SleepExpires(l))
    /\ \A l \in Loops : SF_vars(StartTick(l))
    /\ WF_vars(RconReturns)
    /\ \A l \in Loops :
          WF_vars(\E result \in {"ok", "error"} : WorkerReturns(l, result))
    /\ \A l \in Loops : SF_vars(Resume(l))

SpecLoopsFair == Init /\ [][NextLoops]_vars /\ FairLoops

\* C13: at no time are two polls of the log file in progress: a poll starts
\* only after the previous one has returned.
C13_OnePollAtATime == running["logs"] <= 1

\* a poll of the log file is in progress after an earlier one has returned
C13_SecondPollRunning ==
    /\ outcome["logs"] # "none"
    /\ loopPc["logs"] = "executor"
    /\ running["logs"] = 1

\* C14: while a remote call of one loop is in progress, every other loop
\* whose sleep has expired can start its tick and every other loop whose call
\* has returned can complete its tick.
C14_LoopsDoNotBlock ==
    \A l, m \in Loops :
        (l # m /\ loopPc[l] \in {"rcon", "executor"}) =>
            /\ loopPc[m] = "due" => CanStart(m)
            /\ loopPc[m] = "done" => CanResume(m)

\* C15: no exception of a tick ends a loop: after a tick that failed the loop
\* sleeps and then runs another tick, and every loop completes ticks again and
\* again.
C15_LoopsNeverStop ==
    \A l \in Loops :
        /\ []<>(loopPc[l] = "done")
        /\ (loopPc[l] = "done" /\ outcome[l] = "error")
              ~> (loopPc[l] = "sleeping")
        /\ (loopPc[l] = "sleeping" /\ outcome[l] = "error")
              ~> (loopPc[l] = "executor")

\* a loop runs a tick after a tick that ended with an exception
C15_TickAfterFailure ==
    \E l \in Loops : loopPc[l] = "executor" /\ outcome[l] = "error"

----------------------------------------------------------------------------
\* The query path: GET /api/today and GET /api/debug/events/{player_name}

DebugLimit == 100

\* the names a client asks for
QueryNames == {"Steve", "steve", "Alex"}

\* LOWER(player_name)
LowerName(n) ==
    IF n = "Steve" THEN "steve" ELSE IF n = "Alex" THEN "alex" ELSE n

\* the rows WHERE LOWER(player_name) = LOWER(?) selects
MatchingEvents(rows, n) ==
    {i \in 1..Len(rows) : LowerName(rows[i].player_name) = LowerName(n)}

\* the orders ORDER BY event_time DESC allows for these rows
NewestFirst(rows, n) ==
    LET ids == MatchingEvents(rows, n)
        k == Cardinality(ids)
    IN  {s \in [1..k -> ids] :
            /\ \A i, j \in 1..k : i # j => s[i] # s[j]
            /\ \A i, j \in 1..k :
                  i < j => rows[s[i]].event_time >= rows[s[j]].event_time}

\* the dictionary debug_player_events returns, for one order of the rows
DebugEvents(rows, order, n) ==
    LET k == IF Len(order) < DebugLimit THEN Len(order) ELSE DebugLimit
        found == [i \in 1..k |-> rows[order[i]]]
    IN  [kind |-> "events", player_name |-> n, event_count |-> Len(found),
         events |-> found]

\* (mutant) the statement executed on the connection deletes the rows
RowsAfterDelete(rows) == <<>>

\* the table after cursor.execute(SELECT ...) and conn.close()
RowsAfterSelect(rows) == rows

\* debug_player_events
DebugPlayerEvents(n) ==
    /\ \E order \in NewestFirst(player_events, n) :
          response' = DebugEvents(player_events, order, n)
    /\ player_events' = RowsAfterSelect(player_events)
    /\ UNCHANGED <<now, logFile, last_size, pc, current_size, delivered,
                   redelivered, pendingRotation, pollAfterRotation, pollResult,
                   lastInsert, rotations, pollStart, pollFailure,
                   player_sessions, history, sideVars>>

\* (mutant) the exception of the query reaches the caller
TodayStatsErrorRaised(at) == [kind |-> "raised", at |-> at, error |-> "error"]

\* the dictionary the handler of lines 360-375 returns
TodayStatsError(at) ==
    [kind |-> "stats",
     at |-> at,
     players |-> <<>>,
     summary |-> [unique_players |-> 0,
                  total_playtime_seconds |-> 0,
                  total_sessions |-> 0],
     error |-> "error"]

\* _get_today_stats_sync when the query raises (the store is unavailable)
GetTodayStatsFail ==
    /\ response' = TodayStatsError(now)
    /\ UNCHANGED <<now, logVars, player_sessions, history, sideVars>>

\* queries interleaved with the steps of ingestion polls and with joins
\* recorded in the session store
NextQuery ==
    \/ AppendLog
    \/ PollSize
    \/ PollRead
    \/ \E p \in LogPlayers : RecordJoin(p, now)
    \/ GetTodayStats
    \/ GetTodayStatsFail
    \/ \E n \in QueryNames : DebugPlayerEvents(n)

SpecQuery == Init /\ [][NextQuery]_vars

\* a step that returns the result of a query
QueryStep ==
    /\ response' # response
    /\ response'.kind \in {"stats", "events"}

\* C16: a query (today's stats, a player's raw events) changes no row of the
\* session store or of the event store and leaves last_size and the position
\* of a running poll as they are, also between the two steps of a poll.
C16_QueryFrame ==
    QueryStep =>
        /\ player_sessions' = player_sessions
        /\ player_events' = player_events
        /\ last_size' = last_size
        /\ pc' = pc
        /\ current_size' = current_size

C16_QueryReadOnly == [][C16_QueryFrame]_vars

\* a query returned while a poll was between its size query and its range
\* read, with an event of the log file not yet in the event store
C16_QueryDuringPoll ==
    /\ pc = "sized"
    /\ response.kind = "events"
    /\ response.event_count = 0
    /\ MatchingEvents(ParseLines(logFile, now), response.player_name) # {}

\* C18: the result of a failed today-stats query is a normal result with an
\* empty player list, a summary of zeros, and an error field.
C18_ErrorResult ==
    "error" \in DOMAIN response =>
        /\ response.kind = "stats"
        /\ response.players = <<>>
        /\ response.summary.unique_players = 0
        /\ response.summary.total_playtime_seconds = 0
        /\ response.summary.total_sessions = 0

\* the query failed although the session store holds rows
C18_FailedWithRows ==
    /\ "error" \in DOMAIN response
    /\ response.kind = "stats"
    /\ player_sessions # <<>>

----------------------------------------------------------------------------
\* LogService._parse_lines on its own: a batch of lines of every kind

JoinLine(p, tod) == <<HeaderByte(tod), MessageByte(p, "join")>>

LeaveLine(p, tod) == <<HeaderByte(tod), MessageByte(p, "leave")>>

\* "24:00:00", which \d{2}:\d{2}:\d{2} matches
OutOfRangeTime == 24 * HourSeconds

\* join and leave lines, a leave line inside white space, a blank line, a
\* line of white space, a line with another message, a join line with a name
\* the pattern rejects, a message without its header, and a join line whose
\* time is out of range
LineSamples ==
    {JoinLine("Steve", 8 * HourSeconds),
     JoinLine("Steve", OutOfRangeTime),
     LeaveLine("Steve", 8 * HourSeconds + Step),
     <<SpaceByte>> \o LeaveLine("Alex", 9 * HourSeconds) \o <<SpaceByte>>,
     <<>>,
     <<SpaceByte>>,
     <<HeaderByte(8 * HourSeconds), OtherByte>>,
     JoinLine("ab", 8 * HourSeconds),
     <<MessageByte("Steve", "join")>>}

RECURSIVE BatchesOfLines(_)
BatchesOfLines(n) ==
    IF n = 0 THEN {<<>>}
    ELSE LET shorter == BatchesOfLines(n - 1)
         IN  shorter \cup {Append(b, l) : b \in shorter, l \in LineSamples}

InitParse ==
    /\ now = StartNow
    /\ batch_lines \in BatchesOfLines(MaxLines)
    /\ parsed = NotParsed
    /\ InitStore
    /\ InitLoops
    /\ NoMetricsPoll
    /\ NoRemoteCall
    /\ NoResolveCall
    /\ NoStats

\* _parse_lines(lines), with the clock as the reference
ParseCall ==
    /\ parsed = NotParsed
    /\ parsed' = IF ParseRaises(batch_lines)
                 THEN [returned |-> FALSE, raised |-> TRUE, events |-> <<>>]
                 ELSE [returned |-> TRUE, raised |-> FALSE,
                       events |-> ParseLinesAt(batch_lines, now)]
    /\ UNCHANGED <<now, logVars, dbVars, loopVars, resolveVars, batch_lines,
                   boardVars, cacheVars, remoteVars>>

NextParse == ParseCall

SpecParse == InitParse /\ [][NextParse]_vars

\* the lines of the batch that match the join or the leave pattern
MatchingLines ==
    {i \in 1..Len(batch_lines) : LineMatches(StripLine(batch_lines[i]))}

\* the event a matching line stands for
LineEvent(line) ==
    LET l == StripLine(line)
    IN  [player_name |-> l[Len(l)].player,
         event_type |-> l[Len(l)].etype,
         event_time |-> ResolveTime(l[1].tod, now)]

\* C17: parsing a batch raises no error and returns, in the order of the
\* lines, one event for each line that matches the join or the leave pattern;
\* blank and non-matching lines add nothing and stop nothing.
C17_OneEventPerMatchingLine ==
    parsed # NotParsed =>
        /\ parsed.returned
        /\ Len(parsed.events) = Cardinality(MatchingLines)
        /\ \A i \in MatchingLines :
              parsed.events[Cardinality({j \in MatchingLines : j <= i})]
                  = LineEvent(batch_lines[i])

----------------------------------------------------------------------------
\* The stats files, the stats cache and the leaderboards (src/stats_service.py)

TopN == 10

TicksPerSecond == 20

\* dict.get(key, default)
Get(d, key, default) == IF key \in DOMAIN d THEN d[key] ELSE default

RECURSIVE SumKeys(_, _)
SumKeys(d, keys) ==
    IF keys = {} THEN 0
    ELSE LET k == CHOOSE x \in keys : TRUE
         IN  d[k] + SumKeys(d, keys \ {k})

\* sum(d.values())
SumValues(d) == SumKeys(d, DOMAIN d)

\* StatsService._parse_blocks_mined
ParseBlocksMined(stats_json) ==
    SumValues(Get(Get(stats_json, "stats", <<>>), "minecraft:mined", <<>>))

\* StatsService._parse_play_time
ParsePlayTime(stats_json) ==
    LET custom == Get(Get(stats_json, "stats", <<>>), "minecraft:custom", <<>>)
        ticks == Get(custom, "minecraft:play_time",
                     Get(custom, "minecraft:play_one_minute", 0))
    IN  ticks \div TicksPerSecond

DistanceKeys ==
    {"minecraft:walk_one_cm", "minecraft:sprint_one_cm",
     "minecraft:fly_one_cm", "minecraft:swim_one_cm", "minecraft:climb_one_cm"}

RECURSIVE SumGets(_, _)
SumGets(d, keys) ==
    IF keys = {} THEN 0
    ELSE LET k == CHOOSE x \in keys : TRUE
         IN  Get(d, k, 0) + SumGets(d, keys \ {k})

\* StatsService._parse_distance_traveled
ParseDistanceTraveled(stats_json) ==
    SumGets(Get(Get(stats_json, "stats", <<>>), "minecraft:custom", <<>>),
            DistanceKeys)

\* StatsService._read_player_stats_sync, for a file that exists and parses
ReadPlayerStats(stats_json) ==
    [blocks_mined |-> ParseBlocksMined(stats_json),
     distance_cm |-> ParseDistanceTraveled(stats_json),
     play_time_seconds |-> ParsePlayTime(stats_json)]

\* (mutant) every player of the mapping gets an entry
ReadableAlways(file) == TRUE

\* _read_player_stats_sync returns a dictionary: "cat" printed the file and
\* json.loads accepted it; an empty output returns None and a file that does
\* not parse raises, and the loop of _refresh_stats_sync skips both
Readable(file) == file.content = "json"

\* the loop of _refresh_stats_sync over uuid_mapping.items()
RECURSIVE ReadAllStats(_)
ReadAllStats(files) ==
    IF files = <<>> THEN <<>>
    ELSE (IF Readable(Head(files))
          THEN <<[name |-> Head(files).name,
                  stats |-> ReadPlayerStats(Head(files).stats_json)]>>
          ELSE <<>>)
             \o ReadAllStats(Tail(files))

\* the list built for one metric by the loop of get_leaderboards
RECURSIVE ValueEntries(_, _)
ValueEntries(cache, field) ==
    IF cache = <<>> THEN <<>>
    ELSE <<[name |-> Head(cache).name, value |-> Head(cache).stats[field]]>>
             \o ValueEntries(Tail(cache), field)

\* if stats.get("play_time_seconds", 0) > 0
RECURSIVE PositiveEntries(_)
PositiveEntries(entries) ==
    IF entries = <<>> THEN <<>>
    ELSE IF Head(entries).value > 0
         THEN <<Head(entries)>> \o PositiveEntries(Tail(entries))
         ELSE PositiveEntries(Tail(entries))

\* (mutant) an entry is put before the entries of equal value
RECURSIVE InsertBeforeEqual(_, _)
InsertBeforeEqual(sorted, e) ==
    IF sorted = <<>> THEN <<e>>
    ELSE IF Head(sorted).value > e.value
         THEN <<Head(sorted)>> \o InsertBeforeEqual(Tail(sorted), e)
         ELSE <<e>> \o sorted

\* list.sort(key=value, reverse=True) is stable: an entry goes after every
\* entry of greater or equal value that came before it
RECURSIVE InsertDesc(_, _)
InsertDesc(sorted, e) ==
    IF sorted = <<>> THEN <<e>>
    ELSE IF Head(sorted).value >= e.value
         THEN <<Head(sorted)>> \o InsertDesc(Tail(sorted), e)
         ELSE <<e>> \o sorted

RECURSIVE SortDescFrom(_, _)
SortDescFrom(sorted, entries) ==
    IF entries = <<>> THEN sorted
    ELSE SortDescFrom(InsertDesc(sorted, Head(entries)), Tail(entries))

SortDesc(entries) == SortDescFrom(<<>>, entries)

\* entries[:10]
TopSlice(entries) ==
    SubSeq(entries, 1, IF Len(entries) < TopN THEN Len(entries) ELSE TopN)

\* StatsService.get_leaderboards
Leaderboards(cache) ==
    [served |-> TRUE,
     playtime |-> TopSlice(SortDesc(PositiveEntries(
                      ValueEntries(cache.player_stats, "play_time_seconds")))),
     blocks |-> TopSlice(SortDesc(
                      ValueEntries(cache.player_stats, "blocks_mined"))),
     distance |-> TopSlice(SortDesc(
                      ValueEntries(cache.player_stats, "distance_cm"))),
     last_updated |-> cache.last_updated,
     stale |-> cache.stale]

\* the names of usercache.json, in the order of the file
CacheNames ==
    <<"Alex", "Steve", "P03", "P04", "P05", "P06", "P07", "P08", "P09", "P10",
      "P11", "P12", "P13", "P14", "P15", "P16">>

\* the stats file of a player who mined and walked, on a server version that
\* records no play time
MinerFile(i) ==
    "stats" :> (("minecraft:mined" :> (("minecraft:stone" :> (i % 3))
                                       @@ ("minecraft:dirt" :> 1)))
                @@ ("minecraft:custom" :> ("minecraft:walk_one_cm" :> (i % 2))))

\* the stats file of a player who played and moved and never mined a block
WalkerFile(i) ==
    "stats" :> ("minecraft:custom" :>
                   (("minecraft:play_time" :>
                        (TicksPerSecond * (1 + (i % 2)) + 19))
                    @@ ("minecraft:walk_one_cm" :> (1 + (i % 3)))
                    @@ ("minecraft:sprint_one_cm" :> 1)))

RECURSIVE FileLists(_)
FileLists(n) ==
    IF n = 0 THEN {<<>>}
    ELSE LET shorter == {f \in FileLists(n - 1) : Len(f) = n - 1}
         IN  FileLists(n - 1)
               \cup {Append(f, [name |-> CacheNames[n], stats_json |-> j,
                                  content |-> "json"]) :
                        f \in shorter, j \in {MinerFile(n), WalkerFile(n)}}

InitBoards ==
    /\ now = StartNow
    /\ stats_files \in FileLists(MaxCachePlayers)
    /\ stats_cache = EmptyCache
    /\ leaderboards = NoBoards
    /\ usercache_file = "json"
    /\ InitStore
    /\ InitLoops
    /\ NoMetricsPoll
    /\ NoRemoteCall
    /\ NoResolveCall
    /\ NoParseCall

\* _create_ssh_client or _read_usercache_sync raises: the connection is
\* refused or times out, "cat" writes to stderr, or json.loads rejects the
\* output
RefreshRaises == ssh_host # "up" \/ usercache_file \in {"unreadable", "malformed"}

\* _read_usercache_sync: an empty output is an empty mapping
ReadUsercache == IF usercache_file = "empty" THEN <<>> ELSE stats_files

\* (mutant) the handler empties the cache
RefreshFailedCleared(cache) ==
    [cache EXCEPT !.stale = TRUE, !.uuid_mapping = <<>>, !.player_stats = <<>>]

\* the handler of _refresh_stats_sync, lines 87-89
RefreshFailed(cache) == [cache EXCEPT !.stale = TRUE]

\* StatsService._refresh_stats_sync
RefreshStats ==
    /\ stats_cache' =
          IF RefreshRaises THEN RefreshFailed(stats_cache)
          ELSE [uuid_mapping |-> [i \in 1..Len(ReadUsercache) |->
                                      ReadUsercache[i].name],
                player_stats |-> ReadAllStats(ReadUsercache),
                last_updated |-> now,
                stale |-> FALSE]
    /\ UNCHANGED <<now, logVars, dbVars, loopVars, resolveVars, parseVars,
                   stats_files, leaderboards, usercache_file, cacheVars,
                   remoteVars>>

\* GET /api/leaderboards
GetLeaderboards ==
    /\ leaderboards' = Leaderboards(stats_cache)
    /\ UNCHANGED <<now, logVars, dbVars, loopVars, resolveVars, parseVars,
                   stats_files, stats_cache, usercache_file, cacheVars,
                   remoteVars>>

NextBoards ==
    \/ RefreshStats
    \/ GetLeaderboards

SpecBoards == InitBoards /\ [][NextBoards]_vars

\* the three leaderboards and the field of the cache each one shows
Metrics == {"playtime", "blocks", "distance"}

MetricField(metric) ==
    IF metric = "playtime" THEN "play_time_seconds"
    ELSE IF metric = "blocks" THEN "blocks_mined" ELSE "distance_cm"

\* the stats file of a player
FileOf(n) ==
    LET i == CHOOSE j \in 1..Len(stats_files) : stats_files[j].name = n
    IN  stats_files[i].stats_json

\* the player's stats file has data for the metric
HasSource(n, metric) ==
    LET stats == Get(FileOf(n), "stats", <<>>)
        custom == Get(stats, "minecraft:custom", <<>>)
    IN  IF metric = "blocks" THEN "minecraft:mined" \in DOMAIN stats
        ELSE IF metric = "playtime"
             THEN {"minecraft:play_time", "minecraft:play_one_minute"}
                      \cap DOMAIN custom # {}
             ELSE DistanceKeys \cap DOMAIN custom # {}

\* C19: every player listed in a leaderboard has data in the source of that
\* leaderboard's metric: a player missing from the source of a metric is not
\* added to its leaderboard, with zero or any other value.
C19_NoZeroFilling ==
    leaderboards.served =>
        \A metric \in Metrics :
            \A k \in 1..Len(leaderboards[metric]) :
                HasSource(leaderboards[metric][k].name, metric)

\* the position of a player in the iteration order of the cache
CachePos(n) ==
    CHOOSE i \in 1..Len(stats_cache.player_stats) :
        stats_cache.player_stats[i].name = n

\* the cache positions a leaderboard draws from
Eligible(metric) ==
    {i \in 1..Len(stats_cache.player_stats) :
        metric = "playtime"
            => stats_cache.player_stats[i].stats.play_time_seconds > 0}

ValueAt(metric, i) == stats_cache.player_stats[i].stats[MetricField(metric)]

BoardOfCache(metric, board) ==
    LET listed == {board[k].name : k \in 1..Len(board)}
    IN  /\ Len(board) <= TopN
        /\ Len(board) = IF Cardinality(Eligible(metric)) < TopN
                        THEN Cardinality(Eligible(metric)) ELSE TopN
        /\ \A k \in 1..Len(board) :
              /\ CachePos(board[k].name) \in Eligible(metric)
              /\ board[k].value = ValueAt(metric, CachePos(board[k].name))
        /\ \A k, l \in 1..Len(board) :
              k < l =>
                 \/ board[k].value > board[l].value
                 \/ /\ board[k].value = board[l].value
                    /\ CachePos(board[k].name) < CachePos(board[l].name)
        /\ \A i \in Eligible(metric) :
              stats_cache.player_stats[i].name \notin listed =>
                 \A k \in 1..Len(board) :
                    \/ board[k].value > ValueAt(metric, i)
                    \/ /\ board[k].value = ValueAt(metric, i)
                       /\ CachePos(board[k].name) < i

\* the leaderboards just served are those of the cache
C20_BoardsOfCache ==
    \A metric \in Metrics : BoardOfCache(metric, leaderboards[metric])

C20_Served == leaderboards' # leaderboards => C20_BoardsOfCache'

\* C20: each leaderboard served has at most 10 entries, is sorted by value in
\* non-increasing order, holds the entries with the 10 greatest values of its
\* metric, and lists entries of equal value in the iteration order of the
\* cache.
C20_TopTenSorted == [][C20_Served]_vars

\* leaderboards were served from a cache of more than 10 players whose blocks
\* values are not in order: the blocks leaderboard is full, holds two entries
\* of equal value, and leaves out a player
C20_FullBoardWithTies ==
    /\ leaderboards.served
    /\ Len(stats_cache.player_stats) > TopN
    /\ Len(leaderboards.blocks) = TopN
    /\ \E i, j \in 1..Len(stats_cache.player_stats) :
          i < j /\ ValueAt("blocks", i) < ValueAt("blocks", j)
    /\ \E k \in 1..(TopN - 1) :
          leaderboards.blocks[k].value = leaderboards.blocks[k + 1].value
    /\ leaderboards.blocks[1].value > leaderboards.blocks[TopN].value

----------------------------------------------------------------------------
\* The status cache: poll_minecraft_server writes it, the API reads it.

ServerMaxPlayers == 20    \* the maximum the server reports in "list"

StaleAfter == 30    \* seconds after which cached data is stale

ElapseSteps == {StaleAfter \div 2, StaleAfter \div 2 + 1}

\* the metrics of a running server; tps in hundredths, cpu_percent and the
\* disk sizes in tenths
ServerMetrics ==
    [tps |-> 1987, memory_used_mb |-> 4096, memory_total_mb |-> 8192,
     cpu_percent |-> 452, disk_used_gb |-> 153, disk_total_gb |-> 500,
     uptime_seconds |-> 3600]

\* _execute_sync returned None
NoRconResponse == [ok |-> FALSE, max |-> 0, names |-> <<>>]

\* _execute_sync("list") against the server: "There are X of a max of Y
\* players online: names", or None when the connection fails
ExecuteCommand ==
    IF mc_server.up
    THEN [ok |-> TRUE, max |-> ServerMaxPlayers, names |-> mc_server.players]
    ELSE NoRconResponse

IsServerOnline(rcon_response) == rcon_response.ok

GetOnlinePlayers(rcon_response) ==
    IF ~rcon_response.ok THEN <<>> ELSE rcon_response.names

GetMaxPlayers(rcon_response) ==
    IF ~rcon_response.ok THEN 0 ELSE rcon_response.max

\* CacheService.update: every field is replaced
CacheUpdate(online, players_current, players_max, metrics, error, t) ==
    [online |-> online,
     players |-> [current |-> players_current,
                  count |-> Len(players_current), max |-> players_max],
     performance |-> [tps |-> metrics.tps,
                      memory_used_mb |-> metrics.memory_used_mb,
                      memory_total_mb |-> metrics.memory_total_mb,
                      cpu_percent |-> metrics.cpu_percent,
                      disk_used_gb |-> metrics.disk_used_gb,
                      disk_total_gb |-> metrics.disk_total_gb],
     uptime_seconds |-> metrics.uptime_seconds,
     last_updated |-> t, last_error |-> error]

StaleAtThreshold(last_updated, t) ==
    IF last_updated # Never THEN t - last_updated >= StaleAfter ELSE TRUE

\* the stale flag of CacheService.get
Stale(last_updated, t) ==
    IF last_updated # Never THEN t - last_updated > StaleAfter ELSE TRUE

\* CacheService.get at time t
CacheGet(c, t) ==
    [online |-> c.online, players |-> c.players,
     performance |-> c.performance, uptime_seconds |-> c.uptime_seconds,
     last_updated |-> c.last_updated, last_error |-> c.last_error,
     stale |-> Stale(c.last_updated, t)]

\* CacheService.get_players at time t
CacheGetPlayers(c, t) ==
    LET data == CacheGet(c, t)
    IN  [current |-> data.players.current, count |-> data.players.count,
         max |-> data.players.max, stale |-> data.stale,
         last_updated |-> data.last_updated]

\* the Minecraft server stops, or RCON becomes unreachable
ServerStops ==
    /\ mc_server.up
    /\ mc_server' = [up |-> FALSE, players |-> <<>>]
    /\ UNCHANGED <<now, logVars, dbVars, loopVars, resolveVars, parseVars,
                   boardVars, remoteVars, metricsPoll, status_cache, cache_response,
                   cacheHist>>

ServerStarts ==
    /\ ~mc_server.up
    /\ mc_server' = [up |-> TRUE, players |-> <<>>]
    /\ UNCHANGED <<now, logVars, dbVars, loopVars, resolveVars, parseVars,
                   boardVars, remoteVars, metricsPoll, status_cache, cache_response,
                   cacheHist>>

PlayerConnects(p) ==
    /\ mc_server.up
    /\ \A i \in 1..Len(mc_server.players) : mc_server.players[i] # p
    /\ mc_server' = [mc_server EXCEPT !.players = Append(@, p)]
    /\ UNCHANGED <<now, logVars, dbVars, loopVars, resolveVars, parseVars,
                   boardVars, remoteVars, metricsPoll, status_cache, cache_response,
                   cacheHist>>

PlayerDisconnects(p) ==
    /\ mc_server.up
    /\ \E i \in 1..Len(mc_server.players) : mc_server.players[i] = p
    /\ mc_server' = [mc_server EXCEPT
                       !.players = SelectSeq(@, LAMBDA q : q # p)]
    /\ UNCHANGED <<now, logVars, dbVars, loopVars, resolveVars, parseVars,
                   boardVars, remoteVars, metricsPoll, status_cache, cache_response,
                   cacheHist>>

\* time passes
Elapse(d) ==
    /\ now + d <= StartNow + MaxElapsed
    /\ now' = now + d
    /\ UNCHANGED <<logVars, dbVars, sideVars>>

\* poll_minecraft_server: is_online = await rcon_service.is_server_online()
PollIsOnline ==
    /\ metricsPoll.pc = "idle"
    /\ metricsPoll' = [metricsPoll EXCEPT
                         !.pc = "players",
                         !.is_online = IsServerOnline(ExecuteCommand),
                         !.rcon_failed = ~ExecuteCommand.ok]
    /\ UNCHANGED <<now, logVars, dbVars, loopVars, resolveVars, parseVars,
                   boardVars, remoteVars, mc_server, status_cache, cache_response,
                   cacheHist>>

\* current_players = await rcon_service.get_online_players()
PollOnlinePlayers ==
    /\ metricsPoll.pc = "players"
    /\ metricsPoll' = [metricsPoll EXCEPT
                         !.pc = "max",
                         !.current_players = GetOnlinePlayers(ExecuteCommand),
                         !.rcon_failed = @ \/ ~ExecuteCommand.ok]
    /\ UNCHANGED <<now, logVars, dbVars, loopVars, resolveVars, parseVars,
                   boardVars, remoteVars, mc_server, status_cache, cache_response,
                   cacheHist>>

\* max_players = await rcon_service.get_max_players()
PollMaxPlayers ==
    /\ metricsPoll.pc = "max"
    /\ metricsPoll' = [metricsPoll EXCEPT
                         !.pc = "metrics",
                         !.max_players = GetMaxPlayers(ExecuteCommand),
                         !.rcon_failed = @ \/ ~ExecuteCommand.ok]
    /\ UNCHANGED <<now, logVars, dbVars, loopVars, resolveVars, parseVars,
                   boardVars, remoteVars, mc_server, status_cache, cache_response,
                   cacheHist>>

\* metrics = await ssh_service.get_server_metrics(), then
\* cache_service.update(..., error=None)
PollUpdateCache(metrics) ==
    /\ metricsPoll.pc = "metrics"
    /\ status_cache' = CacheUpdate(metricsPoll.is_online,
                                   metricsPoll.current_players,
                                   metricsPoll.max_players, metrics, "None",
                                   now)
    /\ cacheHist' = IF metricsPoll.rcon_failed
                    THEN [cacheHist EXCEPT !.lastTick = "failed"]
                    ELSE [lastTick |-> "ok", written |-> TRUE,
                          players |-> status_cache'.players,
                          performance |-> status_cache'.performance]
    /\ metricsPoll' = IdlePoll
    /\ UNCHANGED <<now, logVars, dbVars, loopVars, resolveVars, parseVars,
                   boardVars, remoteVars, mc_server, cache_response>>

\* GET /api/status
GetStatus ==
    /\ cache_response' = [kind |-> "status",
                          body |-> CacheGet(status_cache, now)]
    /\ UNCHANGED <<now, logVars, dbVars, loopVars, resolveVars, parseVars,
                   boardVars, remoteVars, mc_server, metricsPoll, status_cache, cacheHist>>

\* GET /api/players
GetPlayers ==
    /\ cache_response' = [kind |-> "players",
                          body |-> CacheGetPlayers(status_cache, now)]
    /\ UNCHANGED <<now, logVars, dbVars, loopVars, resolveVars, parseVars,
                   boardVars, remoteVars, mc_server, metricsPoll, status_cache, cacheHist>>

NextCache ==
    \/ ServerStops
    \/ ServerStarts
    \/ \E p \in LogPlayers : PlayerConnects(p)
    \/ \E p \in LogPlayers : PlayerDisconnects(p)
    \/ \E d \in ElapseSteps : Elapse(d)
    \/ PollIsOnline
    \/ PollOnlinePlayers
    \/ PollMaxPlayers
    \/ \E metrics \in {ServerMetrics, FallbackMetrics} : PollUpdateCache(metrics)

SpecCache == Init /\ [][NextCache]_vars

\* reads of the cache while the poll loop runs and time passes
NextCacheRead ==
    \/ \E d \in ElapseSteps : Elapse(d)
    \/ \E p \in LogPlayers : PlayerConnects(p)
    \/ PollIsOnline
    \/ PollOnlinePlayers
    \/ PollMaxPlayers
    \/ PollUpdateCache(ServerMetrics)
    \/ GetStatus
    \/ GetPlayers

SpecCacheRead == Init /\ [][NextCacheRead]_vars

\* C21: after a poll tick in which RCON failed, the player list, the maximum
\* and the performance values the cache returns are those written by the
\* last successful poll.
C21_LastKnownGood ==
    (cacheHist.lastTick = "failed" /\ cacheHist.written)
        => /\ CacheGet(status_cache, now).players = cacheHist.players
           /\ CacheGet(status_cache, now).performance = cacheHist.performance
           /\ CacheGetPlayers(status_cache, now).current
                = cacheHist.players.current
           /\ CacheGetPlayers(status_cache, now).max = cacheHist.players.max

\* the age, at this instant, of the data a read returned
AgeOf(body) == now - body.last_updated

\* C22: a read reports stale exactly when the cache was never updated or its
\* last update is more than 30 seconds before the read; a read at most 30
\* seconds after an update reports stale = false.
C22_StaleFlag ==
    [][cache_response' # cache_response
         => LET body == cache_response'.body
            IN  /\ body.last_updated = status_cache.last_updated
                /\ body.last_updated = Never => body.stale
                /\ (body.last_updated # Never /\ AgeOf(body) > StaleAfter)
                      => body.stale
                /\ (body.last_updated # Never /\ AgeOf(body) <= StaleAfter)
                      => ~body.stale]_vars

\* a read exactly 30 seconds after the update reported fresh data
C22_ReadAtThreshold ==
    /\ cache_response.kind = "status"
    /\ cache_response.body.last_updated # Never
    /\ AgeOf(cache_response.body) = StaleAfter
    /\ ~cache_response.body.stale

----------------------------------------------------------------------------
\* C23: a poll that observes size 0, or a size equal to last_size, changes
\* neither last_size nor the store nor any other state and issues no range
\* read; size 0 observed while last_size > 0 leaves last_size as it was.
C23_NoOpPoll ==
    [][(PollSize /\ (Len(logFile) = 0 \/ Len(logFile) = last_size))
          => /\ last_size' = last_size
             /\ pc' = "idle"
             /\ current_size' = current_size
             /\ player_events' = player_events
             /\ UNCHANGED <<now, logFile, dbVars, sideVars>>]_vars

\* a poll found the file empty while the offset was positive
C23_EmptyFileOffsetKept ==
    /\ logFile = <<>>
    /\ last_size > 0
    /\ pc = "idle"
    /\ pollResult.readFrom = 0 - 1
    /\ pollFailure = "none"
    /\ pendingRotation

\* the byte offsets of the file as it is now
AllOffsets == {i - 1 : i \in 1..Len(logFile)}

\* C24: a poll that observes 0 < S < last_size resets last_size to 0 before
\* reading, reads the file from its first byte and ends with last_size = S;
\* after a process restart last_size is 0 and the first poll reads the file
\* from its first byte.
C24_RereadFromStart ==
    [][/\ (PollSize /\ 0 < Len(logFile) /\ Len(logFile) < last_size)
            => /\ last_size' = 0
               /\ pc' = "sized"
               /\ current_size' = Len(logFile)
       /\ PollRead
            => /\ last_size' = current_size
               /\ last_size = 0 => AllOffsets \subseteq delivered'
       /\ Restart => last_size' = 0 /\ pc' = "idle"]_vars

\* a poll detected the rotation, read from the first byte and finished
C24_RotatedFileReread ==
    /\ rotations > 0
    /\ pollResult.afterRotation
    /\ pollResult.readFrom = 0
    /\ pc = "idle"
    /\ last_size > 0
    /\ last_size = Len(logFile)
    /\ AllOffsets \subseteq delivered

\* the events of the lines that lie in bytes from + 1 .. to of the file
EventsInRange(from, to) ==
    LET last == IF to < Len(logFile) THEN to ELSE Len(logFile)
    IN  EventKeys(ParseLines(SubSeq(logFile, from + 1, last), now))

\* C25: the tail offset advances past a byte range only when the events of
\* that range are in the store; a poll whose insert fails leaves the offset
\* where it was, so that a later poll reads the same bytes again.
C25_OffsetAdvancesOnlyWhenStored ==
    [][last_size' > last_size
         => EventsInRange(last_size, last_size')
                \subseteq StoredKeys(player_events')]_vars

\* the number of stored events with the key k
StoredCount(k) ==
    Cardinality({i \in 1..Len(player_events) : EventKey(player_events[i]) = k})

\* C26: once the tailer has read up to the end of the file (no rotation),
\* every complete join/leave line of the file has exactly one event in the
\* store, also when the bytes of a line were split between two polls.
C26_CompleteLinesStored ==
    (pc = "idle" /\ rotations = 0 /\ last_size = Len(logFile))
        => \A k \in EventKeys(ParseLines(logFile, now)) : StoredCount(k) = 1

----------------------------------------------------------------------------
\* the session store under Joins, Leaves and restarts alone
NextSessions ==
    \/ \E p \in Players, t \in TimeGrid : RecordJoin(p, t)
    \/ \E p \in Players, t \in TimeGrid : RecordLeave(p, t)
    \/ Restart

SpecSessions == Init /\ [][NextSessions]_vars

\* the rows of the session store that a step changed
ChangedIds == {i \in RowIds(player_sessions) :
                  player_sessions'[i] # player_sessions[i]}

C28_EndAfterJoin ==
    /\ \A i \in RowIds(player_sessions) :
          player_sessions[i].left_at # NULL
            => /\ player_sessions[i].left_at > player_sessions[i].joined_at
               /\ player_sessions[i].duration_seconds >= 0
    /\ response.kind = "stats"
          => /\ \A k \in 1..Len(response.players) :
                   response.players[k].total_playtime_seconds >= 0
             /\ response.summary.total_playtime_seconds >= 0

\* the time of the event recorded last, if any
LastRecordedTime ==
    IF history = <<>> THEN 0 ELSE history[Len(history)].time

\* Joins and Leaves recorded in the order of their times, and queries
NextToday ==
    \/ Tick
    \/ \E p \in Players, t \in TimeGrid :
          t >= LastRecordedTime /\ RecordJoin(p, t)
    \/ \E p \in Players, t \in TimeGrid :
          t >= LastRecordedTime /\ RecordLeave(p, t)
    \/ GetTodayStats

SpecToday == Init /\ [][NextToday]_vars

\* the sessions of the player whose Join is at or after the instant
AnchoredIds(p, from) ==
    {i \in RowIds(player_sessions) :
        /\ player_sessions[i].player_name = p
        /\ player_sessions[i].joined_at >= from}

\* the full length of a session, up to its Leave or up to the instant
FullDuration(i, at) ==
    IF player_sessions[i].left_at = NULL
    THEN at - player_sessions[i].joined_at
    ELSE player_sessions[i].left_at - player_sessions[i].joined_at

RECURSIVE SumDurations(_, _)
SumDurations(ids, at) ==
    IF ids = {} THEN 0
    ELSE LET i == CHOOSE j \in ids : TRUE
         IN  FullDuration(i, at) + SumDurations(ids \ {i}, at)

\* the entries of the result for the player
EntriesFor(p) ==
    {k \in 1..Len(response.players) : response.players[k].name = p}

\* C29: a session counts toward the window exactly when its Join is at or
\* after the window start; a session whose Join is before the start adds no
\* seconds and no session even if it is still open, and a session anchored
\* in the window counts in full, up to its Leave or to now.
C29_WindowAnchoring ==
    response.kind = "stats"
      => \A p \in Players :
            LET from == MidnightUtc(response.at)
                anchored == AnchoredIds(p, from)
            IN  /\ anchored = {} => EntriesFor(p) = {}
                /\ anchored # {}
                     => /\ Cardinality(EntriesFor(p)) = 1
                        /\ \A k \in EntriesFor(p) :
                              /\ response.players[k].session_count
                                   = Cardinality(anchored)
                              /\ response.players[k].total_playtime_seconds
                                   = SumDurations(anchored, response.at)

\* a player who joined before the window start and is still online has only
\* the session that began inside the window counted
C29_OnlineSincePreviousDay ==
    /\ response.kind = "stats"
    /\ \E i, j \in RowIds(player_sessions) :
          /\ player_sessions[i].player_name = player_sessions[j].player_name
          /\ player_sessions[i].left_at = NULL
          /\ player_sessions[i].joined_at < MidnightUtc(response.at)
          /\ player_sessions[j].joined_at >= MidnightUtc(response.at)
          /\ player_sessions[j].joined_at < response.at
          /\ \E k \in EntriesFor(player_sessions[i].player_name) :
                /\ response.players[k].session_count = 1
                /\ response.players[k].total_playtime_seconds > 0

RECURSIVE TotalOf(_, _)
TotalOf(entries, field) ==
    IF entries = <<>> THEN 0
    ELSE Head(entries)[field] + TotalOf(Tail(entries), field)

\* C30: the players list is in non-increasing order of
\* total_playtime_seconds, an open session counting up to the query's now,
\* and the summary is the number of entries and the sums over the entries.
C30_OrderedAndSummed ==
    response.kind = "stats"
      => /\ \A i, j \in 1..Len(response.players) :
               i < j => response.players[i].total_playtime_seconds
                          >= response.players[j].total_playtime_seconds
         /\ \A k \in 1..Len(response.players) :
               response.players[k].total_playtime_seconds
                 = SumPlaytime(player_sessions, response.players[k].name,
                               MidnightUtc(response.at), response.at)
         /\ response.summary.unique_players = Len(response.players)
         /\ response.summary.total_playtime_seconds
              = TotalOf(response.players, "total_playtime_seconds")
         /\ response.summary.total_sessions
              = TotalOf(response.players, "session_count")

\* two players with different totals, one of them still online
C30_TwoPlayersRanked ==
    /\ response.kind = "stats"
    /\ Len(response.players) = 2
    /\ response.players[1].total_playtime_seconds
         > response.players[2].total_playtime_seconds
    /\ response.players[2].total_playtime_seconds > 0
    /\ response.players[1].currently_online
    /\ ~response.players[2].currently_online

----------------------------------------------------------------------------
\* the instant T with time of day tod and T <= reference < T + 24 hours
WrittenAt(tod, reference) ==
    LET today == reference - (reference % DaySeconds)
    IN  IF tod <= reference % DaySeconds
        THEN today + tod
        ELSE (today - DaySeconds) + tod

\* C31: a line written at instant T and parsed at a reference instant now
\* with T <= now < T + 24 hours resolves to T.
C31_ResolvesToWrittenInstant ==
    resolved_time # Unresolved
        => resolved_time = WrittenAt(time_str, now)

----------------------------------------------------------------------------
\* The remote steps of a poll of the log file, against a host that answers
\* ("up"), refuses or resets connections ("refusing"), or does not answer at
\* all ("silent").

HostStates == {"up", "refusing", "silent"}

HostChanges(h) ==
    /\ h # ssh_host
    /\ ssh_host' = h
    /\ UNCHANGED <<now, logVars, dbVars, loopVars, resolveVars, parseVars,
                   boardVars, cacheVars, logWorker, startup>>

\* _poll_logs_sync returns to the executor: also after an exception, which
\* its handler of line 83 has printed
LogPollReturns ==
    /\ running' = [running EXCEPT !["logs"] = @ - 1]
    /\ loopPc' = [loopPc EXCEPT !["logs"] = "done"]
    /\ outcome' = [outcome EXCEPT !["logs"] = "ok"]
    /\ logWorker' = "none"
    /\ UNCHANGED <<now, logVars, dbVars, resolveVars, parseVars, boardVars,
                   cacheVars, ssh_host, startup>>

\* _create_ssh_client: ssh.connect(..., timeout=10) succeeds, or raises: at
\* once when refused, after the timeout of 10 seconds when the host does not
\* answer
LogConnect ==
    /\ loopPc["logs"] = "executor"
    /\ logWorker = "none"
    /\ IF ssh_host = "up"
       THEN /\ logWorker' = "connected"
            /\ UNCHANGED <<now, logVars, dbVars, loopVars, resolveVars,
                           parseVars, boardVars, cacheVars, ssh_host, startup>>
       ELSE LogPollReturns

\* exec_command("wc -c < latest.log") and stdout.read(): the poll goes on to
\* the range read, or returns when the size is 0 or unchanged; when the
\* connection is reset the call raises
LogSizeQuery ==
    /\ logWorker = "connected"
    /\ ssh_host # "silent"
    /\ IF ssh_host = "up"
       THEN \/ /\ logWorker' = "sized"
               /\ UNCHANGED <<now, logVars, dbVars, loopVars, resolveVars,
                              parseVars, boardVars, cacheVars, ssh_host, startup>>
            \/ LogPollReturns
       ELSE LogPollReturns

\* exec_command("tail -c +N latest.log") and stdout.read(), then parsing and
\* insertion; when the connection is reset the call raises
LogRangeRead ==
    /\ logWorker = "sized"
    /\ ssh_host # "silent"
    /\ LogPollReturns

\* exec_command and stdout.read() are called without a timeout: while the
\* host is silent the worker waits in them, and no step is enabled.
NextRemote ==
    \/ \E l \in Loops : SleepExpires(l)
    \/ \E l \in Loops : StartTick(l)
    \/ RconReturns
    \/ \E l \in Loops \ {"logs"}, result \in {"ok", "error"} :
          WorkerReturns(l, result)
    \/ \E l \in Loops : Resume(l)
    \/ \E h \in HostStates : HostChanges(h)
    \/ LogConnect
    \/ LogSizeQuery
    \/ LogRangeRead

\* timers fire, the event loop runs ready tasks, calls of the other loops end,
\* and a step of the log poll is taken if the host answers it again and again
FairRemote ==
    /\ \A l \in Loops : WF_vars(SleepExpires(l))
    /\ \A l \in Loops : SF_vars(StartTick(l))
    /\ WF_vars(RconReturns)
    /\ \A l \in Loops \ {"logs"} :
          WF_vars(\E result \in {"ok", "error"} : WorkerReturns(l, result))
    /\ \A l \in Loops : SF_vars(Resume(l))
    /\ SF_vars(LogConnect)
    /\ SF_vars(LogSizeQuery)
    /\ SF_vars(LogRangeRead)

SpecRemote == Init /\ [][NextRemote]_vars /\ FairRemote

\* C32: every tick of the log loop terminates: whatever the host does, the
\* poll in the executor ends and the loop reaches its next sleep.
C32_LogTickTerminates ==
    (loopPc["logs"] = "executor") ~> (loopPc["logs"] = "sleeping")

----------------------------------------------------------------------------
\* Startup of the application: startup_event awaits init_db (table creation,
\* then cleanup of orphaned sessions) and then creates the polling tasks.

Stops == Cardinality({i \in 1..Len(history) : history[i].op = "stop"})

\* the process ends and is started again: the tasks and the calls in the
\* executor are gone, the tailer starts with _last_size = 0, the database
\* file is kept
ProcessStops ==
    /\ startup = "initialised"
    /\ \A l \in Loops : loopPc[l] # "uncreated"
    /\ Len(history) < MaxOps
    /\ Stops < MaxRestarts
    /\ startup' = "init_db"
    /\ loopPc' = [l \in Loops |-> "uncreated"]
    /\ running' = [l \in Loops |-> 0]
    /\ outcome' = [l \in Loops |-> "none"]
    /\ logWorker' = "none"
    /\ history' = Append(history, HistoryEntry("stop", "", 0))
    /\ response' = [kind |-> "none"]
    /\ last_size' = 0
    /\ pc' = "idle"
    /\ current_size' = 0
    /\ delivered' = {}
    /\ pendingRotation' = FALSE
    /\ pollAfterRotation' = FALSE
    /\ pollStart' = NoPollStart
    /\ pollFailure' = "none"
    /\ UNCHANGED <<now, logFile, player_events, redelivered, pollResult,
                   lastInsert, rotations, player_sessions, resolveVars,
                   parseVars, boardVars, cacheVars, ssh_host>>

\* _init_db_sync: the tables and indexes are created, or the exception is
\* raised again and startup_event fails
InitDbSync(ok) ==
    /\ startup = "init_db"
    /\ startup' = IF ok THEN "cleanup" ELSE "failed"
    /\ UNCHANGED <<now, logVars, dbVars, loopVars, resolveVars, parseVars,
                   boardVars, cacheVars, ssh_host, logWorker>>

\* _close_orphaned_sessions_sync: the open rows are closed and committed, or
\* an exception is caught and printed as a warning; init_db returns
CloseOrphanedSessionsSync(ok) ==
    /\ startup = "cleanup"
    /\ startup' = "initialised"
    /\ player_sessions' = IF ok THEN CloseOrphanedSessions(player_sessions)
                          ELSE player_sessions
    /\ history' = Append(history, HistoryEntry("init", "", 0))
    /\ UNCHANGED <<now, logVars, response, loopVars, resolveVars, parseVars,
                   boardVars, cacheVars, ssh_host, logWorker>>

StartupReadyAtOnce(s) == s # "failed"

\* startup_event reaches its create_task calls after await init_db()
StartupReady(s) == s = "initialised"

\* asyncio.create_task for the three loops
CreateTasks ==
    /\ StartupReady(startup)
    /\ \A l \in Loops : loopPc[l] = "uncreated"
    /\ loopPc' = [l \in Loops |-> IF l = "stats" THEN "sleeping" ELSE "due"]
    /\ running' = [l \in Loops |-> 0]
    /\ outcome' = [l \in Loops |-> "none"]
    /\ UNCHANGED <<now, logVars, dbVars, resolveVars, parseVars, boardVars,
                   cacheVars, remoteVars>>

\* a tick of the log loop records a Join
TickRecordsJoin(p) ==
    /\ loopPc["logs"] = "executor"
    /\ RecordJoin(p, now)

\* GET /api/today: requests are served once startup_event has returned
ServeTodayStats ==
    /\ \A l \in Loops : loopPc[l] # "uncreated"
    /\ GetTodayStats

NextStartup ==
    \/ ProcessStops
    \/ \E ok \in BOOLEAN : InitDbSync(ok)
    \/ \E ok \in BOOLEAN : CloseOrphanedSessionsSync(ok)
    \/ CreateTasks
    \/ \E l \in Loops : SleepExpires(l)
    \/ \E l \in Loops : StartTick(l)
    \/ RconReturns
    \/ \E l \in Loops, result \in {"ok", "error"} : WorkerReturns(l, result)
    \/ \E l \in Loops : Resume(l)
    \/ \E p \in LogPlayers : TickRecordsJoin(p)
    \/ ServeTodayStats

SpecStartup == Init /\ [][NextStartup]_vars

\* C33: whenever a polling task exists, and whenever a write or a query has
\* run in this process, table creation and the cleanup of orphaned sessions
\* have completed.
C33_InitBeforePolling ==
    /\ \A l \in Loops : loopPc[l] # "uncreated" => startup = "initialised"
    /\ response.kind # "none" => startup = "initialised"
    /\ (history # <<>> /\ history[Len(history)].op = "join")
          => startup = "initialised"

\* the process was restarted and a tick of the log loop runs
C33_TickAfterRestart ==
    /\ Stops > 0
    /\ startup = "initialised"
    /\ loopPc["logs"] = "executor"
    /\ history[Len(history)].op = "init"

\* C34: the cleanup step of init_db closes every open row with
\* left_at = joined_at and duration_seconds = 0, leaves every closed row as
\* it was, and leaves no player currently online.
C34_CleanupClosesEveryOpenRow ==
    [][(startup = "cleanup" /\ startup' = "initialised")
          => /\ player_sessions' = CloseOrphanedSessions(player_sessions)
             /\ CurrentlyOnlineNames(player_sessions') = {}]_vars

----------------------------------------------------------------------------
\* C35: a poll tick in which RCON was unreachable leaves the cache's
\* last_updated as it was, and with it the stale flag a read computes.
C35_FailedTickKeepsLastUpdated ==
    [][(metricsPoll.pc = "metrics" /\ metricsPoll' = IdlePoll
           /\ metricsPoll.rcon_failed)
          => /\ status_cache'.last_updated = status_cache.last_updated
             /\ CacheGet(status_cache', now').stale
                  = CacheGet(status_cache, now).stale]_vars

\* C36: a snapshot written by a poll tick describes one server state: with
\* online = false the player list is empty and the maximum is 0, with
\* online = true the maximum is the one the server answers.
C36_SnapshotOneServerState ==
    status_cache.last_updated # Never
        => /\ ~status_cache.online
                => /\ status_cache.players.current = <<>>
                   /\ status_cache.players.max = 0
           /\ status_cache.online
                => status_cache.players.max = ServerMaxPlayers

----------------------------------------------------------------------------
\* Stats refreshes while the host, usercache.json and the stats files change

MaxRefreshPlayers == 2

UsercacheStates == {"json", "empty", "unreadable", "malformed"}

\* usercache.json is rewritten, truncated, removed or damaged on the host
UsercacheChanges(u) ==
    /\ u # usercache_file
    /\ usercache_file' = u
    /\ UNCHANGED <<now, logVars, dbVars, loopVars, resolveVars, parseVars,
                   stats_files, stats_cache, leaderboards, cacheVars,
                   remoteVars>>

StatsFileStates == {"json", "missing", "corrupt"}

\* world/stats/<uuid>.json of one player appears, disappears or is damaged
StatsFileChanges(i, c) ==
    /\ i \in 1..Len(stats_files)
    /\ c # stats_files[i].content
    /\ stats_files' = [stats_files EXCEPT ![i].content = c]
    /\ UNCHANGED <<now, logVars, dbVars, loopVars, resolveVars, parseVars,
                   stats_cache, leaderboards, usercache_file, cacheVars,
                   remoteVars>>

InitRefresh ==
    /\ now = StartNow
    /\ stats_files \in FileLists(MaxRefreshPlayers)
    /\ stats_cache = EmptyCache
    /\ leaderboards = NoBoards
    /\ usercache_file = "json"
    /\ InitStore
    /\ InitLoops
    /\ NoMetricsPoll
    /\ NoRemoteCall
    /\ NoResolveCall
    /\ NoParseCall

NextRefresh ==
    \/ RefreshStats
    \/ Elapse(StaleAfter \div 2)
    \/ \E h \in HostStates : HostChanges(h)
    \/ \E u \in UsercacheStates : UsercacheChanges(u)
    \/ \E i \in 1..MaxRefreshPlayers, c \in StatsFileStates :
          StatsFileChanges(i, c)

SpecRefresh == InitRefresh /\ [][NextRefresh]_vars

\* the refresh cannot connect, or cannot read or parse usercache.json
RefreshCannotRead ==
    \/ ssh_host \in {"refusing", "silent"}
    \/ usercache_file \in {"unreadable", "malformed"}

C38_UnreadableFileSkipped ==
    [][(stats_cache' # stats_cache /\ ~RefreshCannotRead)
          => LET files == IF usercache_file = "empty" THEN <<>>
                          ELSE stats_files
                 new == stats_cache'.player_stats
             IN  /\ ~stats_cache'.stale
                 /\ stats_cache'.last_updated = now
                 /\ \A i \in 1..Len(files) :
                       (\E k \in 1..Len(new) : new[k].name = files[i].name)
                          <=> files[i].content = "json"
                 /\ \A k \in 1..Len(new) :
                       \E i \in 1..Len(files) :
                          /\ files[i].name = new[k].name
                          /\ new[k].stats = ReadPlayerStats(files[i].stats_json)
                 /\ \A k, l \in 1..Len(new) :
                       new[k].name = new[l].name => k = l]_vars

\* the first player's file does not parse and the second player's was read
C38_SecondPlayerReadAfterCorruptFile ==
    /\ ~stats_cache.stale
    /\ stats_cache.last_updated = now
    /\ Len(stats_files) = 2
    /\ stats_files[1].content = "corrupt"
    /\ Len(stats_cache.uuid_mapping) = 2
    /\ Len(stats_cache.player_stats) = 1
    /\ stats_cache.player_stats[1].name = stats_files[2].name
    /\ stats_cache.player_stats[1].stats
         = ReadPlayerStats(stats_files[2].stats_json)

====
